---- MODULE Spec2Model ----
(***************************************************************************)
(* A model of musikr's ID3v2 tag engine: Tag::new / open / update / clear  *)
(* / save over a file of bytes.  Bytes are the integers 0..255, a file is  *)
(* a sequence of bytes (or NoFile), strings are sequences of code points.  *)
(***************************************************************************)
EXTENDS Integers, Sequences, FiniteSets, TLC

VARIABLES file, tag, last, sz, call

vars == <<file, tag, last, sz, call>>

(***************************************************************************)
(* Bounds of the model.                                                    *)
(***************************************************************************)
MaxSteps == 5

\* The longest drawn byte buffer.
MaxLen == 4

\* The longest drawn body of an event timing codes frame.
MaxBody == 11

(***************************************************************************)
(* Sequence helpers.                                                       *)
(***************************************************************************)
Min(a, b) == IF a <= b THEN a ELSE b

Take(s, n) == SubSeq(s, 1, Min(n, Len(s)))

Drop(s, n) == SubSeq(s, n + 1, Len(s))

Zeros(n) == [i \in 1..n |-> 0]

BitAt(pos, byte) == ((byte \div (2 ^ pos)) % 2) = 1

BoolBit(b, pos) == IF b THEN 2 ^ pos ELSE 0

\* The path names no file.
NoFile == <<-1>>

(***************************************************************************)
(* RawIntCodec: plain big-endian and syncsafe integers.                    *)
(***************************************************************************)
ToU32(b) == ((b[1] * 256 + b[2]) * 256 + b[3]) * 256 + b[4]

FromU32(n) == << (n \div 16777216) % 256, (n \div 65536) % 256, (n \div 256) % 256, n % 256 >>

ToU24(b) == (b[1] * 256 + b[2]) * 256 + b[3]

SyncsafeOk(b) == \A i \in 1..4 : b[i] < 128

SyncsafeDecode(b) == ((b[1] * 128 + b[2]) * 128 + b[3]) * 128 + b[4]

\* A syncsafe encoding that uses all 8 bits of each byte.
SyncsafeEncodePlain(n) == << (n \div 16777216) % 256, (n \div 65536) % 256, (n \div 256) % 256, n % 256 >>

SyncsafeEncode(n) == << (n \div 2097152) % 128, (n \div 16384) % 128, (n \div 128) % 128, n % 128 >>

\* syncsafe_decode with its failure on a reserved bit.
SyncsafeParse(b) ==
    IF SyncsafeOk(b) THEN [ok |-> TRUE, err |-> "None", value |-> SyncsafeDecode(b)]
    ELSE [ok |-> FALSE, err |-> "MalformedData", value |-> 0]

(***************************************************************************)
(* SyncData: decode collapses every FF 00 to FF, encode puts 00 after      *)
(* every FF.                                                               *)
(***************************************************************************)
RECURSIVE SyncEncode(_)
SyncEncode(data) ==
    IF data = <<>> THEN <<>>
    ELSE (IF data[1] = 255 THEN <<255, 0>> ELSE <<data[1]>>) \o SyncEncode(Tail(data))

RECURSIVE SyncDecodeFrom(_, _, _)
SyncDecodeFrom(data, pos, acc) ==
    IF pos > Len(data) THEN acc
    ELSE IF data[pos] = 255 /\ pos + 1 <= Len(data) /\ data[pos + 1] = 0
         THEN SyncDecodeFrom(data, pos + 2, Append(acc, 255))
         ELSE SyncDecodeFrom(data, pos + 1, Append(acc, data[pos]))

SyncDecode(data) == SyncDecodeFrom(data, 1, <<>>)

(***************************************************************************)
(* Versions.                                                               *)
(***************************************************************************)
Versions == {"V22", "V23", "V24"}

SaveVersions == {"V23", "V24"}

VersionMajor(v) == CASE v = "V22" -> 2 [] v = "V23" -> 3 [] v = "V24" -> 4

VersionOfMajor(m) == CASE m = 2 -> "V22" [] m = 3 -> "V23" [] m = 4 -> "V24"

(***************************************************************************)
(* TagHeader.                                                              *)
(***************************************************************************)
ID == <<73, 68, 51>>

NoFlags == [unsync |-> FALSE, extended |-> FALSE, experimental |-> FALSE, footer |-> FALSE]

TagHeaderWithVersion(v) == [version |-> v, minor |-> 0, flags |-> NoFlags, size |-> 0]

\* A parse that reads the footer flag under every major version.
TagHeaderParseFooterAny(raw) ==
    IF SubSeq(raw, 1, 3) # ID THEN [ok |-> FALSE, err |-> "MalformedData", header |-> TagHeaderWithVersion("V24")]
    ELSE IF raw[4] \notin {2, 3, 4} THEN [ok |-> FALSE, err |-> "Unsupported", header |-> TagHeaderWithVersion("V24")]
    ELSE IF ~SyncsafeOk(SubSeq(raw, 7, 10)) THEN [ok |-> FALSE, err |-> "MalformedData", header |-> TagHeaderWithVersion("V24")]
    ELSE [ok |-> TRUE, err |-> "None",
          header |-> [version |-> VersionOfMajor(raw[4]),
                      minor |-> raw[5],
                      flags |-> [unsync |-> BitAt(7, raw[6]),
                                 extended |-> BitAt(6, raw[6]),
                                 experimental |-> BitAt(5, raw[6]),
                                 footer |-> BitAt(4, raw[6])],
                      size |-> SyncsafeDecode(SubSeq(raw, 7, 10))]]

TagHeaderParse(raw) ==
    IF SubSeq(raw, 1, 3) # ID THEN [ok |-> FALSE, err |-> "MalformedData", header |-> TagHeaderWithVersion("V24")]
    ELSE IF raw[4] \notin {2, 3, 4} THEN [ok |-> FALSE, err |-> "Unsupported", header |-> TagHeaderWithVersion("V24")]
    ELSE IF ~SyncsafeOk(SubSeq(raw, 7, 10)) THEN [ok |-> FALSE, err |-> "MalformedData", header |-> TagHeaderWithVersion("V24")]
    ELSE [ok |-> TRUE, err |-> "None",
          header |-> [version |-> VersionOfMajor(raw[4]),
                      minor |-> raw[5],
                      flags |-> [unsync |-> BitAt(7, raw[6]),
                                 extended |-> BitAt(6, raw[6]),
                                 experimental |-> BitAt(5, raw[6]),
                                 footer |-> raw[4] = 4 /\ BitAt(4, raw[6])],
                      size |-> SyncsafeDecode(SubSeq(raw, 7, 10))]]

TagHeaderRender(h) ==
    ID \o <<VersionMajor(h.version), 0>>
       \o <<BoolBit(h.flags.unsync, 7) + BoolBit(h.flags.extended, 6)
            + BoolBit(h.flags.experimental, 5) + BoolBit(h.flags.footer, 4)>>
       \o SyncsafeEncode(h.size)

(***************************************************************************)
(* ExtendedHeader.  An Option is a sequence of length 0 or 1.              *)
(***************************************************************************)
ExtFail(pos) == [ok |-> FALSE, ext |-> [data |-> <<>>], pos |-> pos]

ExtendedHeaderParse(data, pos, version) ==
    LET rest == Drop(data, pos) IN
    IF version = "V22" \/ Len(rest) < 4 THEN ExtFail(pos)
    ELSE IF version = "V23"
         THEN LET size == ToU32(rest) IN
              IF Len(rest) < 4 + size THEN ExtFail(pos)
              ELSE [ok |-> TRUE, ext |-> [data |-> SubSeq(rest, 5, 4 + size)], pos |-> pos + 4 + size]
         ELSE LET size == SyncsafeDecode(rest) IN
              IF ~SyncsafeOk(rest) \/ size < 4 \/ Len(rest) < size THEN ExtFail(pos)
              ELSE [ok |-> TRUE, ext |-> [data |-> SubSeq(rest, 5, size)], pos |-> pos + size]

ExtendedHeaderRender(ext, version) ==
    IF version = "V24" THEN SyncsafeEncode(Len(ext.data) + 4) \o ext.data
    ELSE FromU32(Len(ext.data)) \o ext.data

ExtendedHeaderUpdate(ext, to) == ext

(***************************************************************************)
(* Strings: decoded text is a sequence of code points.                     *)
(***************************************************************************)
Replacement == 65533

RECURSIVE Utf16Units(_, _)
Utf16Units(data, le) ==
    IF Len(data) < 2 THEN <<>>
    ELSE << IF le THEN data[2] * 256 + data[1] ELSE data[1] * 256 + data[2] >>
         \o Utf16Units(Drop(data, 2), le)

TextDecode(encoding, data) ==
    CASE encoding = 0 -> data
      [] encoding = 3 -> [i \in 1..Len(data) |-> IF data[i] < 128 THEN data[i] ELSE Replacement]
      [] encoding = 2 -> Utf16Units(data, FALSE)
      [] encoding = 1 -> IF Len(data) >= 2 /\ data[1] = 255 /\ data[2] = 254 THEN Utf16Units(Drop(data, 2), TRUE)
                         ELSE IF Len(data) >= 2 /\ data[1] = 254 /\ data[2] = 255 THEN Utf16Units(Drop(data, 2), FALSE)
                         ELSE Utf16Units(data, TRUE)

RECURSIVE Utf16Bytes(_, _)
Utf16Bytes(str, le) ==
    IF str = <<>> THEN <<>>
    ELSE (IF le THEN << str[1] % 256, str[1] \div 256 >> ELSE << str[1] \div 256, str[1] % 256 >>)
         \o Utf16Bytes(Tail(str), le)

TextEncode(encoding, str) ==
    CASE encoding = 0 -> [i \in 1..Len(str) |-> IF str[i] < 256 THEN str[i] ELSE 63]
      [] encoding = 3 -> [i \in 1..Len(str) |-> IF str[i] < 128 THEN str[i] ELSE 63]
      [] encoding = 2 -> Utf16Bytes(str, FALSE)
      [] encoding = 1 -> <<255, 254>> \o Utf16Bytes(str, TRUE)

(***************************************************************************)
(* Frame ids (ASCII) and the frame dispatch table.                         *)
(***************************************************************************)
TIT2 == <<84, 73, 84, 50>>

TYER == <<84, 89, 69, 82>>

TDAT == <<84, 68, 65, 84>>

TIME == <<84, 73, 77, 69>>

TORY == <<84, 79, 82, 89>>

TDOR == <<84, 68, 79, 82>>

TDRC == <<84, 68, 82, 67>>

TDEN == <<84, 68, 69, 78>>

IPLS == <<73, 80, 76, 83>>

TIPL == <<84, 73, 80, 76>>

TMCL == <<84, 77, 67, 76>>

TSIZ == <<84, 83, 73, 90>>

XXXX == <<88, 88, 88, 88>>

TXXX == <<84, 88, 88, 88>>

TMOO == <<84, 77, 79, 79>>

ASPI == <<65, 83, 80, 73>>

SEEK == <<83, 69, 69, 75>>

SIGN == <<83, 73, 71, 78>>

EQU2 == <<69, 81, 85, 50>>

RVA2 == <<82, 86, 65, 50>>

TDRL == <<84, 68, 82, 76>>

TDTG == <<84, 68, 84, 71>>

TPRO == <<84, 80, 82, 79>>

TSST == <<84, 83, 83, 84>>

TSOA == <<84, 83, 79, 65>>

TSOP == <<84, 83, 79, 80>>

TSOT == <<84, 83, 79, 84>>

EQUA == <<69, 81, 85, 65>>

RVAD == <<82, 86, 65, 68>>

TRDA == <<84, 82, 68, 65>>

TT2 == <<84, 84, 50>>

TYE == <<84, 89, 69>>

XXX == <<88, 88, 88>>

\* The ids the model dispatches to a frame: the text frames of the tables.
KnownIds == {TIT2, TYER, TDAT, TIME, TORY, TDOR, TDRC, TDEN, IPLS, TIPL, TMCL, TSIZ, TMOO}

UpgradeV2Id(id) == CASE id = TT2 -> TIT2 [] id = TYE -> TYER [] OTHER -> id

IsIdChar(b) == b \in 65..90 \/ b \in 48..57

(***************************************************************************)
(* FrameHeader.                                                            *)
(***************************************************************************)
FrameHeaderLen(version) == IF version = "V22" THEN 6 ELSE 10

FrameHeaderFail == [ok |-> FALSE, id |-> <<>>, size |-> 0, flags |-> <<0, 0>>]

\* A parse that reads every size as a plain big-endian integer.
FrameHeaderParsePlain(version, rest) ==
    IF Len(rest) < FrameHeaderLen(version) THEN FrameHeaderFail
    ELSE IF version = "V22"
         THEN IF \E i \in 1..3 : ~IsIdChar(rest[i]) THEN FrameHeaderFail
              ELSE [ok |-> TRUE, id |-> SubSeq(rest, 1, 3), size |-> ToU24(SubSeq(rest, 4, 6)), flags |-> <<0, 0>>]
         ELSE IF \E i \in 1..4 : ~IsIdChar(rest[i]) THEN FrameHeaderFail
              ELSE [ok |-> TRUE, id |-> SubSeq(rest, 1, 4), size |-> ToU32(SubSeq(rest, 5, 8)),
                    flags |-> SubSeq(rest, 9, 10)]

FrameHeaderParse(version, rest) ==
    IF Len(rest) < FrameHeaderLen(version) THEN FrameHeaderFail
    ELSE IF version = "V22"
         THEN IF \E i \in 1..3 : ~IsIdChar(rest[i]) THEN FrameHeaderFail
              ELSE [ok |-> TRUE, id |-> SubSeq(rest, 1, 3), size |-> ToU24(SubSeq(rest, 4, 6)), flags |-> <<0, 0>>]
         ELSE IF \E i \in 1..4 : ~IsIdChar(rest[i]) THEN FrameHeaderFail
              ELSE IF version = "V24" /\ ~SyncsafeOk(SubSeq(rest, 5, 8)) THEN FrameHeaderFail
              ELSE [ok |-> TRUE, id |-> SubSeq(rest, 1, 4),
                    size |-> IF version = "V24" THEN SyncsafeDecode(SubSeq(rest, 5, 8)) ELSE ToU32(SubSeq(rest, 5, 8)),
                    flags |-> SubSeq(rest, 9, 10)]

\* FrameFlags of the two flag bytes of a frame header.
FrameFlagsParse(version, flags) ==
    CASE version = "V23" ->
            [tag_should_discard |-> BitAt(7, flags[1]), file_should_discard |-> BitAt(6, flags[1]),
             read_only |-> BitAt(5, flags[1]),
             compressed |-> BitAt(7, flags[2]), encrypted |-> BitAt(6, flags[2]),
             has_group |-> BitAt(5, flags[2]), unsync |-> FALSE, has_data_len |-> FALSE]
      [] version = "V24" ->
            [tag_should_discard |-> BitAt(6, flags[1]), file_should_discard |-> BitAt(5, flags[1]),
             read_only |-> BitAt(4, flags[1]),
             compressed |-> BitAt(3, flags[2]), encrypted |-> BitAt(2, flags[2]),
             has_group |-> BitAt(6, flags[2]), unsync |-> BitAt(1, flags[2]),
             has_data_len |-> BitAt(0, flags[2])]
      [] OTHER ->
            [tag_should_discard |-> FALSE, file_should_discard |-> FALSE, read_only |-> FALSE,
             compressed |-> FALSE, encrypted |-> FALSE, has_group |-> FALSE, unsync |-> FALSE,
             has_data_len |-> FALSE]

FrameHeaderRender(version, id, size, flags) ==
    id \o (IF version = "V24" THEN SyncsafeEncode(size) ELSE FromU32(size)) \o flags

(***************************************************************************)
(* Frames.  A known frame is a text frame [id, encoding, text]; an unknown *)
(* frame is the raw [id, flags, data].                                     *)
(***************************************************************************)
Key(frame) == frame.id

TextFrameParse(id, body) ==
    IF Len(body) < 1 \/ body[1] > 3 THEN [ok |-> FALSE, frame |-> [id |-> id, encoding |-> 0, text |-> <<>>]]
    ELSE [ok |-> TRUE, frame |-> [id |-> id, encoding |-> body[1], text |-> TextDecode(body[1], Drop(body, 1))]]

FrameRender(version, frame) ==
    LET body == <<frame.encoding>> \o TextEncode(frame.encoding, frame.text) IN
    FrameHeaderRender(version, frame.id, Len(body), <<0, 0>>) \o body

RenderUnknown(header, unknown) ==
    FrameHeaderRender(header.version, unknown.id, Len(unknown.data), unknown.flags) \o unknown.data

NoFrame == [id |-> <<>>, encoding |-> 0, text |-> <<>>]

NoUnknown == [id |-> <<>>, flags |-> <<0, 0>>, data |-> <<>>]

FramesParse(header, data, pos) ==
    LET rest == Drop(data, pos)
        fh == FrameHeaderParse(header.version, rest)
        hlen == FrameHeaderLen(header.version)
        fail == [ok |-> FALSE, kind |-> "Err", frame |-> NoFrame, unknown |-> NoUnknown, pos |-> pos]
    IN  IF ~fh.ok \/ Len(rest) < hlen + fh.size THEN fail
        ELSE LET body == SubSeq(rest, hlen + 1, hlen + fh.size)
                 id == IF header.version = "V22" THEN UpgradeV2Id(fh.id) ELSE fh.id
                 next == pos + hlen + fh.size
             IN  IF id \notin KnownIds
                 THEN [ok |-> TRUE, kind |-> "Unknown", frame |-> NoFrame,
                       unknown |-> [id |-> fh.id, flags |-> fh.flags, data |-> body], pos |-> next]
                 ELSE LET tf == TextFrameParse(id, body) IN
                      IF tf.ok
                      THEN [ok |-> TRUE, kind |-> "Frame", frame |-> tf.frame, unknown |-> NoUnknown, pos |-> next]
                      ELSE [ok |-> TRUE, kind |-> "Dropped", frame |-> NoFrame, unknown |-> NoUnknown, pos |-> next]

(***************************************************************************)
(* FrameMap: an insertion-ordered sequence of frames with unique keys.     *)
(* UnknownFrames: the version they were parsed under and the raw frames.   *)
(***************************************************************************)
FrameMapHas(map, key) == \E i \in 1..Len(map) : Key(map[i]) = key

FrameMapAdd(map, frame) ==
    IF FrameMapHas(map, Key(frame))
    THEN [i \in 1..Len(map) |-> IF Key(map[i]) = Key(frame) THEN frame ELSE map[i]]
    ELSE Append(map, frame)

FrameMapGet(map, key) == map[CHOOSE i \in 1..Len(map) : Key(map[i]) = key]

RECURSIVE FrameMapRender(_, _)
FrameMapRender(header, map) ==
    IF map = <<>> THEN <<>>
    ELSE FrameRender(header.version, Head(map)) \o FrameMapRender(header, Tail(map))

UnknownFramesNew(version, frames) == [version |-> version, frames |-> frames]

RECURSIVE UnknownsRender(_, _)
UnknownsRender(header, frames) ==
    IF frames = <<>> THEN <<>>
    ELSE RenderUnknown(header, Head(frames)) \o UnknownsRender(header, Tail(frames))

(***************************************************************************)
(* Compat: the conversion tables of Tag::update.                           *)
(***************************************************************************)
V3Dropped == {EQU2, RVA2, ASPI, SEEK, SIGN, TDEN, TDRL, TDTG, TMOO, TPRO, TSST, TSOA, TSOP, TSOT}

V4Dropped == {EQUA, RVAD, TRDA, TSIZ}

\* The ids the table of each target version renames, merges or splits.
V3Renamed == {TDOR, TIPL, TMCL, TDRC}

V4Renamed == {IPLS, TYER, TDAT, TIME, TORY}

DateParts == {TYER, TDAT, TIME}

RECURSIVE RemoveIds(_, _)
RemoveIds(map, ids) ==
    IF map = <<>> THEN <<>>
    ELSE IF Head(map).id \in ids THEN RemoveIds(Tail(map), ids)
    ELSE <<Head(map)>> \o RemoveIds(Tail(map), ids)

RECURSIVE RenameIds(_, _, _, _)
RenameIds(map, from, to, acc) ==
    IF map = <<>> THEN acc
    ELSE RenameIds(Tail(map), from, to,
                   FrameMapAdd(acc, IF Head(map).id \in from
                                    THEN [Head(map) EXCEPT !.id = to]
                                    ELSE Head(map)))

\* TYER "yyyy", TDAT "ddMM", TIME "HHmm"  ->  TDRC "yyyy-MM-ddTHH:mm"
MergeDate(map) ==
    IF ~FrameMapHas(map, TYER) THEN RemoveIds(map, DateParts)
    ELSE LET year == FrameMapGet(map, TYER)
             y == Take(year.text, 4)
             d == IF FrameMapHas(map, TDAT) /\ Len(FrameMapGet(map, TDAT).text) = 4
                  THEN LET t == FrameMapGet(map, TDAT).text IN <<45, t[3], t[4], 45, t[1], t[2]>>
                  ELSE <<>>
             h == IF d # <<>> /\ FrameMapHas(map, TIME) /\ Len(FrameMapGet(map, TIME).text) = 4
                  THEN LET t == FrameMapGet(map, TIME).text IN <<84, t[1], t[2], 58, t[3], t[4]>>
                  ELSE <<>>
         IN  FrameMapAdd(RemoveIds(map, DateParts),
                         [id |-> TDRC, encoding |-> year.encoding, text |-> y \o d \o h])

\* TDRC "yyyy-MM-ddTHH:mm"  ->  TYER "yyyy", TDAT "ddMM", TIME "HHmm"
SplitDate(map) ==
    IF ~FrameMapHas(map, TDRC) THEN map
    ELSE LET f == FrameMapGet(map, TDRC)
             t == f.text
             m0 == RemoveIds(map, {TDRC})
             m1 == IF Len(t) >= 4
                   THEN FrameMapAdd(m0, [id |-> TYER, encoding |-> f.encoding, text |-> Take(t, 4)])
                   ELSE m0
             m2 == IF Len(t) >= 10
                   THEN FrameMapAdd(m1, [id |-> TDAT, encoding |-> f.encoding, text |-> <<t[9], t[10], t[6], t[7]>>])
                   ELSE m1
         IN  IF Len(t) >= 16
             THEN FrameMapAdd(m2, [id |-> TIME, encoding |-> f.encoding, text |-> <<t[12], t[13], t[15], t[16]>>])
             ELSE m2

ToV3(map) ==
    SplitDate(RenameIds(RenameIds(RemoveIds(map, V3Dropped), {TDOR}, TORY, <<>>), {TIPL, TMCL}, IPLS, <<>>))

ToV4(map) ==
    MergeDate(RenameIds(RenameIds(RemoveIds(map, V4Dropped), {IPLS}, TIPL, <<>>), {TORY}, TDOR, <<>>))

(***************************************************************************)
(* Tag.                                                                    *)
(***************************************************************************)
TagWithVersion(version) ==
    [header |-> TagHeaderWithVersion(version),
     extended_header |-> <<>>,
     frames |-> <<>>,
     unknown_frames |-> UnknownFramesNew(version, <<>>)]

TagNew == TagWithVersion("V24")

\* Tag::open without the mapping of the header error.
OpenKeepErr(err) == err

\* Tag::open maps the error of TagHeader::parse.
OpenMapErr(err) == IF err = "MalformedData" THEN "NotFound" ELSE err

\* Tag::open leaving the extended flag as read.
OpenExtendedFlagKept(ok) == TRUE

\* Tag::open: the flag after ExtendedHeader::parse returned `ok`.
OpenExtendedFlag(ok) == ok

\* A frame loop that ends after the first frame.
ParseFramesOnceStep(frames, unknowns, r) ==
    IF ~r.ok THEN [frames |-> frames, unknowns |-> unknowns]
    ELSE IF r.kind = "Frame" THEN [frames |-> FrameMapAdd(frames, r.frame), unknowns |-> unknowns]
    ELSE IF r.kind = "Unknown" THEN [frames |-> frames, unknowns |-> Append(unknowns, r.unknown)]
    ELSE [frames |-> frames, unknowns |-> unknowns]

ParseFramesOnce(header, data, pos, frames, unknowns) ==
    ParseFramesOnceStep(frames, unknowns, FramesParse(header, data, pos))

\* The frame loop of Tag::open.
RECURSIVE ParseFrames(_, _, _, _, _)
\* A loop that a dropped frame ends.
ParseFramesStopAtDropped(header, data, frames, unknowns, r) ==
    IF ~r.ok \/ r.kind = "Dropped" THEN [frames |-> frames, unknowns |-> unknowns]
    ELSE IF r.kind = "Frame" THEN ParseFrames(header, data, r.pos, FrameMapAdd(frames, r.frame), unknowns)
    ELSE ParseFrames(header, data, r.pos, frames, Append(unknowns, r.unknown))

\* A loop that pushes every frame without looking at its key.
ParseFramesPush(header, data, frames, unknowns, r) ==
    IF ~r.ok THEN [frames |-> frames, unknowns |-> unknowns]
    ELSE IF r.kind = "Frame" THEN ParseFrames(header, data, r.pos, Append(frames, r.frame), unknowns)
    ELSE IF r.kind = "Unknown" THEN ParseFrames(header, data, r.pos, frames, Append(unknowns, r.unknown))
    ELSE ParseFrames(header, data, r.pos, frames, unknowns)

\* One turn of the loop on the result r of frames::parse.
ParseFramesStep(header, data, frames, unknowns, r) ==
    IF ~r.ok THEN [frames |-> frames, unknowns |-> unknowns]
    ELSE IF r.kind = "Frame" THEN ParseFrames(header, data, r.pos, FrameMapAdd(frames, r.frame), unknowns)
    ELSE IF r.kind = "Unknown" THEN ParseFrames(header, data, r.pos, frames, Append(unknowns, r.unknown))
    ELSE ParseFrames(header, data, r.pos, frames, unknowns)

ParseFrames(header, data, pos, frames, unknowns) ==
    ParseFramesStep(header, data, frames, unknowns, FramesParse(header, data, pos))

OpenErr(err) == [ok |-> FALSE, err |-> err, tag |-> TagNew]

\* Tag::open, the tag returned after the frame loop.
OpenResult(header, ep, parsed) ==
    [ok |-> TRUE, err |-> "None",
     tag |-> [header |-> header,
              extended_header |-> IF ep.ok THEN <<ep.ext>> ELSE <<>>,
              frames |-> parsed.frames,
              unknown_frames |-> UnknownFramesNew(header.version, parsed.unknowns)]]

\* Tag::open, the frame loop after the extended header.
OpenFrames(header, tag_data, ep) ==
    OpenResult(header, ep, ParseFrames(header, tag_data, ep.pos, <<>>, <<>>))

\* Tag::open, the extended header of the tag body.
OpenExtended(header, tag_data, ep) ==
    OpenFrames(IF header.flags.extended
               THEN [header EXCEPT !.flags.extended = OpenExtendedFlag(ep.ok)]
               ELSE header, tag_data, ep)

OpenBody(header, tag_data) ==
    OpenExtended(header, tag_data,
                 IF header.flags.extended THEN ExtendedHeaderParse(tag_data, 0, header.version)
                 ELSE ExtFail(0))

\* open decoding the body of every tag that has the unsync flag set.
OpenDataAnyVersion(header, read) == IF header.flags.unsync THEN SyncDecode(read) ELSE read

\* Tag::open, the tag-level unsynchronisation of the bytes read.
OpenData(header, read) ==
    IF VersionMajor(header.version) < 4 /\ header.flags.unsync THEN SyncDecode(read) ELSE read

OpenRead(header, read) == OpenBody(header, OpenData(header, read))

\* Tag::open, after TagHeader::parse returned hp.
OpenHeader(hp, f) ==
    IF ~hp.ok THEN OpenErr(OpenMapErr(hp.err))
    ELSE OpenRead(hp.header, Take(Drop(f, 10), hp.header.size))

\* Tag::open as a function of the file.
TagOpen(f) ==
    IF f = NoFile \/ Len(f) < 10 THEN OpenErr("IoError")
    ELSE OpenHeader(TagHeaderParse(SubSeq(f, 1, 10)), f)

\* update converting the frames and leaving the version of the header.
TagUpdateKeepVersion(t, to) ==
    [t EXCEPT !.frames = IF to = "V23" THEN ToV3(t.frames) ELSE ToV4(t.frames),
              !.extended_header = [i \in 1..Len(t.extended_header) |-> ExtendedHeaderUpdate(t.extended_header[i], to)]]

\* Tag::update.
TagUpdate(t, to) ==
    [t EXCEPT !.frames = IF to = "V23" THEN ToV3(t.frames) ELSE ToV4(t.frames),
              !.extended_header = [i \in 1..Len(t.extended_header) |-> ExtendedHeaderUpdate(t.extended_header[i], to)],
              !.header.version = to]

\* A clear that also forgets the size of the tag read.
TagClearSize(t) ==
    [t EXCEPT !.frames = <<>>,
              !.unknown_frames = UnknownFramesNew(t.header.version, <<>>),
              !.extended_header = <<>>,
              !.header.size = 0]

\* Tag::clear.
TagClear(t) ==
    [t EXCEPT !.frames = <<>>,
              !.unknown_frames = UnknownFramesNew(t.header.version, <<>>),
              !.extended_header = <<>>]

(***************************************************************************)
(* Tag::save, step by step.                                                *)
(***************************************************************************)
\* The padding written when the new tag is no smaller than the space left.
LargerPadding == 1024

\* The largest tag size save accepts.
MaxTagSize == 256000000

\* save without the forced upgrade.
SaveVersionKeep(version) == version

\* The version save upgrades the tag to.
SaveVersionFor(version) == IF version \in {"V22", "V23"} THEN "V23" ELSE "V24"

\* save resetting only the extended flag.
SaveFlagsKeep(flags, extended_header) == [flags EXCEPT !.extended = extended_header # <<>>]

\* The header flags save writes.
SaveFlags(flags, extended_header) ==
    [unsync |-> FALSE, extended |-> extended_header # <<>>, experimental |-> FALSE, footer |-> FALSE]

\* save rendering the unknown frames whatever their version.
SaveWritesUnknownAlways(t) == TRUE

\* Whether save renders the unknown frames.
SaveWritesUnknown(t) == t.unknown_frames.version = t.header.version

\* The length of the file at path and the size of the tag found in it.
SaveOldHeader(f, hp) == [len |-> Len(f), old_size |-> IF hp.ok THEN hp.header.size ELSE 0]

SaveOldSize(f) ==
    IF f = NoFile THEN [len |-> 0, old_size |-> 0]
    ELSE SaveOldHeader(f, TagHeaderParse(Take(f, 10) \o Zeros(10 - Min(10, Len(f)))))

\* Padding with 1 KiB also when the sizes are equal.
SavePaddingStrict(old_size, tag_size, len) ==
    IF old_size > tag_size THEN Min(old_size - tag_size, len \div 100) ELSE LargerPadding

\* u64::checked_sub(old_size, tag_size) and the choice of padding.
SavePadding(old_size, tag_size, len) ==
    IF old_size >= tag_size THEN Min(old_size - tag_size, len \div 100) ELSE LargerPadding

\* The size check against the syncsafe limit 2^28 - 1.
SaveTooLargeSyncsafe(tag_size) == tag_size > 268435455

\* The size check of save.
SaveTooLarge(tag_size) == tag_size > MaxTagSize

\* The emptiness test counting the extended header.
SaveWroteFramesAny(tag_len, start_len) == tag_len > 0

\* Whether frames were rendered after the extended header.
SaveWroteFrames(tag_len, start_len) == tag_len > start_len

\* The end of the region of the file that save replaces.
SaveReplacedEnd(old_size) == old_size + 10

\* The size arithmetic of save on the rendered length, the length of the
\* rendered extended header, the old tag size and the file length.  All
\* values stay far below 2^63, so the u64 arithmetic of the code never wraps.
SavePadded(tag_len, padding_size) ==
    [deleted |-> FALSE, padding |-> padding_size, tag_size |-> tag_len + padding_size,
     result |-> IF SaveTooLarge(tag_len + padding_size) THEN "TooLarge" ELSE "Ok"]

SaveSizes(tag_len, start_len, old_size, len) ==
    IF SaveWroteFrames(tag_len, start_len)
    THEN SavePadded(tag_len, SavePadding(old_size, tag_len, len))
    ELSE [deleted |-> TRUE, padding |-> 0, tag_size |-> 0, result |-> "Ok"]

\* core::io::write_replaced: replace the bytes [0, end) of the file by data.
WriteReplaced(f, data, end) == IF f = NoFile THEN data ELSE data \o Drop(f, Min(end, Len(f)))

\* Tag::save, the size check and the write: t is the upgraded tag with its
\* flags reset, tag_data the rendered body, old the old size and file length,
\* s the sizes.
SaveTag(t, s) == IF s.result = "TooLarge" THEN t ELSE [t EXCEPT !.header.size = s.tag_size]

SaveWrite(t, f, start_len, tag_data, wrote_unknown, old, s) ==
    [tag |-> SaveTag(t, s),
     file |-> IF s.result = "TooLarge" THEN f
              ELSE WriteReplaced(f, IF s.deleted THEN <<>>
                                    ELSE TagHeaderRender([t.header EXCEPT !.size = s.tag_size])
                                         \o tag_data \o Zeros(s.padding),
                                 SaveReplacedEnd(old.old_size)),
     result |-> s.result, deleted |-> s.deleted, padding |-> s.padding,
     old_size |-> old.old_size, len |-> old.len, start_len |-> start_len,
     body |-> tag_data, wrote_unknown |-> wrote_unknown]

\* Tag::save, the look at the file at path.
SaveLookup(t, f, start_len, tag_data, wrote_unknown, old) ==
    SaveWrite(t, f, start_len, tag_data, wrote_unknown, old,
              SaveSizes(Len(tag_data), start_len, old.old_size, old.len))

\* Tag::save, the rendering of the frames after the extended header.
SaveRender(t, f, ext_data, wrote_unknown) ==
    SaveLookup(t, f, Len(ext_data),
               ext_data \o FrameMapRender(t.header, t.frames)
                        \o (IF wrote_unknown THEN UnknownsRender(t.header, t.unknown_frames.frames)
                            ELSE <<>>),
               wrote_unknown, SaveOldSize(f))

\* Tag::save, the rendering of the extended header.
SaveExtended(t, f) ==
    SaveRender(t, f,
               IF t.extended_header # <<>>
               THEN ExtendedHeaderRender(t.extended_header[1], t.header.version)
               ELSE <<>>,
               SaveWritesUnknown(t))

\* Tag::save, the reset of the header flags of the upgraded tag.
SaveReset(t) == [t EXCEPT !.header.flags = SaveFlags(t.header.flags, t.extended_header)]

SaveUpgraded(t, f) == SaveExtended(SaveReset(t), f)

\* Tag::save as a function of the tag and the file.
TagSave(t, f) == SaveUpgraded(TagUpdate(t, SaveVersionFor(t.header.version)), f)

(***************************************************************************)
(* The files the model starts from.                                        *)
(***************************************************************************)
Audio == <<255, 251, 144, 100, 1, 2, 3, 4, 5, 6, 7, 8>>

Song == <<83, 111, 110, 103>>

Y2004 == <<50, 48, 48, 52>>

MkFile(major, flag_byte, body, tail) ==
    ID \o <<major, 0, flag_byte>> \o SyncsafeEncode(Len(body)) \o body \o tail

SongFrame == [id |-> TIT2, encoding |-> 0, text |-> Song]

YearFrame == [id |-> TYER, encoding |-> 0, text |-> Y2004]

ExtData == <<1, 22>>

\* v2.2: TT2 "Song", TYE "2004" and an unknown XXX frame
FileV22 ==
    MkFile(2, 0, TT2 \o <<0, 0, 5, 0>> \o Song \o TYE \o <<0, 0, 5, 0>> \o Y2004
                 \o XXX \o <<0, 0, 1, 7>>, Audio)

\* v2.3, unsync and experimental set: TIT2, a dropped TYER (no body) and an
\* unknown XXXX whose data FF 00 01 is stored unsynchronised as FF 00 00 01
FileV23 ==
    MkFile(3, 160, FrameRender("V23", SongFrame) \o TYER \o <<0, 0, 0, 0, 0, 0>>
                   \o XXXX \o <<0, 0, 0, 3, 0, 0>> \o <<255, 0, 0, 1>>, Audio)

\* v2.4, extended header and footer flag set: TIT2 and an unknown XXXX
FileV24 ==
    MkFile(4, 80, ExtendedHeaderRender([data |-> ExtData], "V24") \o FrameRender("V24", SongFrame)
                  \o XXXX \o <<0, 0, 0, 1, 0, 0>> \o <<9>>, Audio)

\* v2.3, extended flag set but no extended header written
FileBadExt == MkFile(3, 64, FrameRender("V23", SongFrame), Audio)

\* v2.4, an extended header and no frame
FileExtOnly == MkFile(4, 64, ExtendedHeaderRender([data |-> ExtData], "V24"), Audio)

\* an unsupported major version
FileV25 == MkFile(5, 0, <<>>, Audio)

\* a size that is not syncsafe
FileBadSize == ID \o <<3, 0, 0, 128, 0, 0, 0>> \o Audio

\* v2.4 with the unsync flag set: a TYER whose encoding byte is invalid (a
\* dropped frame), then TIT2 "Song", an unknown XXXX holding FF 00 01 and a
\* second TIT2 "2004"
FileDropped ==
    MkFile(4, 128, TYER \o <<0, 0, 0, 1, 0, 0>> \o <<9>> \o FrameRender("V24", SongFrame)
                   \o XXXX \o <<0, 0, 0, 3, 0, 0>> \o <<255, 0, 1>>
                   \o FrameRender("V24", [id |-> TIT2, encoding |-> 0, text |-> Y2004]), Audio)

\* v2.4 with frames that have no place in v2.3: TDRC "2004-05-06T07:08",
\* TMOO, TIPL and TDOR, after a TIT2
Date2004 == <<50, 48, 48, 52, 45, 48, 53, 45, 48, 54, 84, 48, 55, 58, 48, 56>>

FileV24Dates ==
    MkFile(4, 0, FrameRender("V24", SongFrame)
                 \o FrameRender("V24", [id |-> TDRC, encoding |-> 0, text |-> Date2004])
                 \o FrameRender("V24", [id |-> TMOO, encoding |-> 0, text |-> <<77>>])
                 \o FrameRender("V24", [id |-> TIPL, encoding |-> 0, text |-> <<80>>])
                 \o FrameRender("V24", [id |-> TDOR, encoding |-> 0, text |-> <<49, 57, 57, 57>>]), Audio)

InitFiles == {NoFile, <<255, 251, 1>>, Audio, FileV22, FileV23, FileV24, FileBadExt, FileExtOnly,
              FileV25, FileBadSize, FileDropped, FileV24Dates}

\* The frames a caller adds: two of them have the same key.
AddableFrames == {SongFrame, YearFrame, [id |-> TIT2, encoding |-> 0, text |-> Y2004]}

(***************************************************************************)
(* The inputs of the size arithmetic of save.                              *)
(***************************************************************************)
TagLens == {0, 10, 1024, 2048, 255998976, 255998977, 256000000, 256000001, 268434431, 268435455, 268435456}

StartLens == {0, 10}

OldSizes == {0, 1024, 2048, 256000000, 268435455}

FileLens == {0, 12, 5000, 500000, 2000000000}

NoSizes == [phase |-> "off", tag_len |-> 0, start_len |-> 0, old_size |-> 0, len |-> 0,
            deleted |-> FALSE, padding |-> 0, tag_size |-> 0, result |-> "None"]

\* No function of the codecs has been called.
NoCall == [fn |-> "none", phase |-> "off"]

(***************************************************************************)
(* Specification of the tag over a file.                                   *)
(***************************************************************************)
NoLast == [op |-> "init", prev |-> "init", result |-> "Ok", n |-> 0, file0 |-> NoFile, tag0 |-> TagNew,
           old_size |-> 0, len |-> 0, start_len |-> 0, body |-> <<>>, padding |-> 0,
           deleted |-> FALSE, wrote_unknown |-> FALSE, to |-> "V24", frame |-> NoFrame]

Did(op, result) ==
    [NoLast EXCEPT !.op = op, !.prev = last.op, !.result = result, !.n = last.n + 1,
                   !.file0 = file, !.tag0 = tag]

Init ==
    /\ file \in InitFiles
    /\ tag = TagNew
    /\ last = NoLast
    /\ sz = NoSizes
    /\ call = NoCall

New ==
    /\ last.n < MaxSteps
    /\ \E version \in SaveVersions : tag' = TagWithVersion(version)
    /\ last' = Did("new", "Ok")
    /\ UNCHANGED <<file, sz, call>>

Opened(r) ==
    /\ tag' = IF r.ok THEN r.tag ELSE tag
    /\ last' = Did("open", IF r.ok THEN "Ok" ELSE r.err)

Open ==
    /\ last.n < MaxSteps
    /\ Opened(TagOpen(file))
    /\ UNCHANGED <<file, sz, call>>

Update ==
    /\ last.n < MaxSteps
    /\ \E to \in SaveVersions :
          /\ tag' = TagUpdate(tag, to)
          /\ last' = [Did("update", "Ok") EXCEPT !.to = to]
    /\ UNCHANGED <<file, sz, call>>

Clear ==
    /\ last.n < MaxSteps
    /\ tag' = TagClear(tag)
    /\ last' = Did("clear", "Ok")
    /\ UNCHANGED <<file, sz, call>>

AddFrame ==
    /\ last.n < MaxSteps
    /\ \E frame \in AddableFrames :
          /\ tag' = [tag EXCEPT !.frames = FrameMapAdd(tag.frames, frame)]
          /\ last' = [Did("add", "Ok") EXCEPT !.frame = frame]
    /\ UNCHANGED <<file, sz, call>>

Saved(r) ==
    /\ tag' = r.tag
    /\ file' = r.file
    /\ last' = [Did("save", r.result) EXCEPT !.old_size = r.old_size, !.len = r.len,
                    !.start_len = r.start_len, !.body = r.body, !.padding = r.padding,
                    !.deleted = r.deleted, !.wrote_unknown = r.wrote_unknown]

Save ==
    /\ last.n < MaxSteps
    /\ Saved(TagSave(tag, file))
    /\ UNCHANGED <<sz, call>>

Next == New \/ Open \/ Update \/ Clear \/ AddFrame \/ Save

Spec == Init /\ [][Next]_vars

(***************************************************************************)
(* Specification of the size arithmetic of save on drawn sizes.            *)
(***************************************************************************)
\* The tags whose save is followed: the new tag and the tags read from the
\* files of the model.  The frames of a tag stand for frames whose rendering
\* has the drawn length; the upgrade and the reset of the flags do not depend
\* on the lengths of the frames.
SizeTags == {TagNew} \cup {TagOpen(f).tag : f \in {FileV22, FileV23, FileV24, FileExtOnly, FileV24Dates}}

\* An extended header is rendered exactly when there is one, and something is
\* rendered after it exactly when the tag holds a frame.
SizeTagFits(t, tag_len, start_len) ==
    /\ start_len > 0 <=> t.extended_header # <<>>
    /\ tag_len > start_len => t.frames # <<>> \/ t.unknown_frames.frames # <<>>
    /\ t.frames # <<>> => tag_len > start_len

SizeInit ==
    /\ file = NoFile
    /\ tag \in SizeTags
    /\ last = NoLast
    /\ call = NoCall
    /\ \E tag_len \in TagLens, start_len \in StartLens, old_size \in OldSizes, len \in FileLens :
        /\ start_len <= tag_len
        /\ old_size > 0 => len >= 10
        /\ SizeTagFits(tag, tag_len, start_len)
        /\ sz = [NoSizes EXCEPT !.phase = "drawn", !.tag_len = tag_len, !.start_len = start_len,
                                !.old_size = old_size, !.len = len]

SizeSaved(s) ==
    sz' = [sz EXCEPT !.phase = "saved", !.deleted = s.deleted, !.padding = s.padding,
                     !.tag_size = s.tag_size, !.result = s.result]

\* Tag::save up to the size check: the upgrade, the reset of the flags, the
\* sizes and the size of the header.  The bytes of the file are left out.
SizeSave ==
    /\ sz.phase = "drawn"
    /\ SizeSaved(SaveSizes(sz.tag_len, sz.start_len, sz.old_size, sz.len))
    /\ tag' = SaveTag(SaveReset(TagUpdate(tag, SaveVersionFor(tag.header.version))),
                      SaveSizes(sz.tag_len, sz.start_len, sz.old_size, sz.len))
    /\ last' = [last EXCEPT !.op = "save", !.tag0 = tag]
    /\ UNCHANGED <<file, call>>

SizeNext == SizeSave

SizeSpec == SizeInit /\ [][SizeNext]_vars

(***************************************************************************)
(* Frame keys.  A frame of any variant is a record of its variant, its id  *)
(* and the fields its key may use.                                         *)
(***************************************************************************)
CHAP == <<67, 72, 65, 80>>

CTOC == <<67, 84, 79, 67>>

USLT == <<85, 83, 76, 84>>

SYLT == <<83, 89, 76, 84>>

OWNE == <<79, 87, 78, 69>>

USER == <<85, 83, 69, 82>>

Colon == <<58>>

Eng == <<101, 110, 103>>

\* Frame::key of each variant.
FrameKey(f) ==
    CASE f.variant \in {"Text", "Ownership"} -> f.id
      [] f.variant \in {"Chapter", "TableOfContents"} -> f.id \o Colon \o f.element_id
      [] f.variant \in {"UnsyncLyrics", "SyncedLyrics"} -> f.id \o Colon \o f.desc \o Colon \o f.lang
      [] f.variant = "TermsOfUse" -> f.text \o Colon \o f.lang

MkKeyFrame(variant, id, element_id, desc, lang, text) ==
    [variant |-> variant, id |-> id, element_id |-> element_id, desc |-> desc, lang |-> lang, text |-> text]

\* The frames whose keys are computed.
KeyFrames ==
    {MkKeyFrame("Text", TIT2, <<>>, <<>>, <<>>, Song), MkKeyFrame("Text", TYER, <<>>, <<>>, <<>>, Y2004),
     MkKeyFrame("Ownership", OWNE, <<>>, <<>>, <<>>, <<>>)}
    \cup {MkKeyFrame("Chapter", CHAP, e, <<>>, <<>>, <<>>) : e \in {<<>>, <<97>>, Eng}}
    \cup {MkKeyFrame("TableOfContents", CTOC, e, <<>>, <<>>, <<>>) : e \in {<<>>, <<97>>}}
    \cup {MkKeyFrame(v, IF v = "UnsyncLyrics" THEN USLT ELSE SYLT, <<>>, d, Eng, <<>>) :
              v \in {"UnsyncLyrics", "SyncedLyrics"}, d \in {<<>>, <<100>>}}
    \cup {MkKeyFrame("TermsOfUse", USER, <<>>, <<>>, Eng, t) : t \in {<<>>, <<97, 98>>, CHAP, USER}}

(***************************************************************************)
(* string.rs: get_string and get_terminated_string.  A call that indexes   *)
(* or slices past the end of its buffer panics.                            *)
(***************************************************************************)
Encodings == {"Utf8", "Utf16Le", "Utf16Be", "Utf16Bom"}

\* String::from_utf8_lossy on ASCII, two-byte sequences and bytes that start
\* no sequence (each of those becomes U+FFFD).
RECURSIVE Utf8Lossy(_)
Utf8Lossy(data) ==
    IF data = <<>> THEN <<>>
    ELSE IF data[1] < 128 THEN <<data[1]>> \o Utf8Lossy(Tail(data))
    ELSE IF data[1] \in 194..223 /\ Len(data) >= 2 /\ data[2] \in 128..191
         THEN <<(data[1] - 192) * 64 + (data[2] - 128)>> \o Utf8Lossy(Drop(data, 2))
    ELSE <<Replacement>> \o Utf8Lossy(Tail(data))

\* String::from_utf16_lossy: a surrogate pair is one character, a lone
\* surrogate is U+FFFD.
RECURSIVE Utf16Lossy(_)
Utf16Lossy(units) ==
    IF units = <<>> THEN <<>>
    ELSE IF units[1] \in 55296..56319 /\ Len(units) >= 2 /\ units[2] \in 56320..57343
         THEN <<65536 + (units[1] - 55296) * 1024 + (units[2] - 56320)>> \o Utf16Lossy(Drop(units, 2))
    ELSE IF units[1] \in 55296..57343 THEN <<Replacement>> \o Utf16Lossy(Tail(units))
    ELSE <<units[1]>> \o Utf16Lossy(Tail(units))

\* str_from_utf16le / str_from_utf16be: chunks_exact(2) leaves an odd byte out.
StrFromUtf16(data, le) == Utf16Lossy(Utf16Units(data, le))

Panic == [panic |-> TRUE, string |-> <<>>, size |-> 0]

Returned(string, size) == [panic |-> FALSE, string |-> string, size |-> size]

\* get_string; native_le is the byte order of the target of the build.
get_string(encoding, data, native_le) ==
    CASE encoding = "Utf8" -> Returned(Utf8Lossy(data), 0)
      [] encoding = "Utf16Le" -> Returned(StrFromUtf16(data, TRUE), 0)
      [] encoding = "Utf16Be" -> Returned(StrFromUtf16(data, FALSE), 0)
      [] encoding = "Utf16Bom" ->
            IF Len(data) < 2 THEN Panic
            ELSE IF data[1] = 255 /\ data[2] = 254 THEN Returned(StrFromUtf16(Drop(data, 2), TRUE), 0)
            ELSE IF data[1] = 254 /\ data[2] = 255 THEN Returned(StrFromUtf16(Drop(data, 2), FALSE), 0)
            ELSE Returned(StrFromUtf16(data, native_le), 0)

\* slice_nul_utf8 from the offset size (0-based, as in the code).
RECURSIVE slice_nul_utf8(_, _)
slice_nul_utf8(data, size) ==
    IF size >= Len(data) THEN Returned(SubSeq(data, 1, size), size)
    ELSE IF data[size + 1] = 0 THEN Returned(SubSeq(data, 1, size), size + 1)
    ELSE slice_nul_utf8(data, size + 1)

\* slice_nul_utf16 from the offset size: data[0..size] panics when size is
\* past the end, data[size + 1] panics when size is the last offset.
RECURSIVE slice_nul_utf16(_, _)
slice_nul_utf16(data, size) ==
    IF size + 1 > Len(data)
    THEN IF size > Len(data) THEN Panic ELSE Returned(SubSeq(data, 1, size), size)
    ELSE IF data[size + 1] = 0
         THEN IF size + 2 > Len(data) THEN Panic
              ELSE IF data[size + 2] = 0 THEN Returned(SubSeq(data, 1, size), size + 2)
              ELSE slice_nul_utf16(data, size + 2)
    ELSE slice_nul_utf16(data, size + 2)

SliceNul(encoding, data) ==
    IF encoding = "Utf8" THEN slice_nul_utf8(data, 0) ELSE slice_nul_utf16(data, 0)

TerminatedString(sliced, str) ==
    IF sliced.panic \/ str.panic THEN Panic ELSE Returned(str.string, sliced.size)

TerminatedSlice(encoding, sliced, native_le) ==
    TerminatedString(sliced, IF sliced.panic THEN Panic
                             ELSE get_string(encoding, sliced.string, native_le))

get_terminated_string(encoding, data, native_le) ==
    TerminatedSlice(encoding, SliceNul(encoding, data), native_le)

\* The bytes of the drawn buffers and the buffers up to MaxLen bytes.
TextBytes == {0, 65, 254, 255}

ByteSeqs(bytes, n) == UNION {[1..k -> bytes] : k \in 0..n}

\* The buffers of the examples of string decoding.
TextExamples == {<<65, 0, 66>>, <<255, 254, 65, 0, 0, 0>>, <<0, 65, 0, 0, 0, 0>>}

(***************************************************************************)
(* ChapterFrame::parse.                                                    *)
(***************************************************************************)
\* ChapterTime::default(); a u32 of the time block is kept as its four
\* big-endian bytes, u32::MAX being wider than the integers of the checker.
U32Max == <<255, 255, 255, 255>>

NoTime == [start_time |-> Zeros(4), end_time |-> Zeros(4), start_offset |-> U32Max, end_offset |-> U32Max]

ChapterErr(result) == [result |-> result, element_id |-> <<>>, time |-> NoTime, frames |-> <<>>]

\* frames::new on the bytes from pos on: a frame, or an error.
FramesNewResult(r) == [r EXCEPT !.ok = r.ok /\ r.kind = "Frame"]

FramesNew(header, data, pos) == FramesNewResult(FramesParse(header, data, pos))

\* A loop of nested frames that stays where it is.
NestedAdvanceNone(header, frame_pos, r) == frame_pos

\* frame_pos += frame.size() + 10, the size being the declared one.
NestedAdvance(header, frame_pos, r) ==
    frame_pos + (r.pos - frame_pos - FrameHeaderLen(header.version)) + 10

\* A loop that ends after the first nested frame.
RECURSIVE ChapterFrames(_, _, _, _)
ChapterFramesOnce(header, data, frame_pos, frames, r) ==
    IF ~r.ok THEN frames ELSE FrameMapAdd(frames, r.frame)

\* One turn of the loop of nested frames on the result r of frames::new:
\* frame_pos += frame.size() + 10, then frames.add(frame).
ChapterFramesStep(header, data, frame_pos, frames, r) ==
    IF ~r.ok THEN frames
    ELSE ChapterFrames(header, data, NestedAdvance(header, frame_pos, r),
                       FrameMapAdd(frames, r.frame))

\* while frame_pos <= data.len()
ChapterFrames(header, data, frame_pos, frames) ==
    IF frame_pos > Len(data) THEN frames
    ELSE ChapterFramesStep(header, data, frame_pos, frames, FramesNew(header, data, frame_pos))

\* The parse after the element id elem: the slices of the time block panic
\* when they end past the data.
ChapterParsed(header, data, elem) ==
    IF elem.size + 16 > Len(data) THEN ChapterErr("Panic")
    ELSE [result |-> "Ok",
          element_id |-> elem.string,
          time |-> [start_time |-> SubSeq(data, elem.size + 1, elem.size + 4),
                    end_time |-> SubSeq(data, elem.size + 5, elem.size + 8),
                    start_offset |-> SubSeq(data, elem.size + 9, elem.size + 12),
                    end_offset |-> SubSeq(data, elem.size + 13, elem.size + 16)],
          frames |-> ChapterFrames(header, data, elem.size + 16, <<>>)]

ChapterParse(header, data) ==
    IF Len(data) < 18 THEN ChapterErr("NotEnoughData")
    ELSE ChapterParsed(header, data, get_terminated_string("Utf8", data, TRUE))

\* Chapter bodies: an element id, a time block and nested frames.
ChapterElements == {<<0>>, <<97, 0>>, <<97, 98, 0>>, <<97, 98>>}

ChapterTimes == {Zeros(16), <<0, 0, 0, 1, 0, 0, 0, 2, 255, 255, 255, 255, 255, 255, 255, 255>>,
                 Zeros(15), <<1, 1, 1, 1, 1, 1, 1, 1, 1, 1, 1, 1, 1, 1, 1, 1, 1>>,
                 <<1, 1, 1, 1, 1, 1, 1, 1, 1, 1, 1, 1, 1, 1, 1, 1>>}

\* A nested TIT2, a nested TYER, a second TIT2, a frame that cannot be
\* parsed (no such encoding) and a byte that starts no frame.
NestedParts(version) ==
    {FrameRender(version, SongFrame), FrameRender(version, YearFrame),
     FrameRender(version, [id |-> TIT2, encoding |-> 0, text |-> Y2004]),
     TYER \o <<0, 0, 0, 1, 0, 0>> \o <<9>>, <<7>>}

NestedBodies(version) ==
    {<<>>} \cup NestedParts(version) \cup {a \o b : a, b \in NestedParts(version)}

\* Tag bodies: up to three frames, one of an id outside the dispatch table.
OpenParts(version) == NestedParts(version) \cup {<<88, 88, 88, 88, 0, 0, 0, 1, 0, 0, 5>>}

OpenBodies(version) ==
    NestedBodies(version) \cup OpenParts(version)
    \cup {a \o b \o c : a, b, c \in OpenParts(version)}

(***************************************************************************)
(* The string module of the frames of musikr: decoding never fails, and a  *)
(* terminated string takes the whole buffer when it has no terminator.     *)
(***************************************************************************)
EncodingParse(data) ==
    IF data = <<>> THEN [ok |-> FALSE, err |-> "NotEnoughData", encoding |-> "Latin1"]
    ELSE CASE data[1] = 0 -> [ok |-> TRUE, err |-> "None", encoding |-> "Latin1"]
           [] data[1] = 1 -> [ok |-> TRUE, err |-> "None", encoding |-> "Utf16"]
           [] data[1] = 2 -> [ok |-> TRUE, err |-> "None", encoding |-> "Utf16Be"]
           [] data[1] = 3 -> [ok |-> TRUE, err |-> "None", encoding |-> "Utf8"]
           [] OTHER -> [ok |-> FALSE, err |-> "MalformedData", encoding |-> "Latin1"]

NulSize(encoding) == IF encoding \in {"Utf16", "Utf16Be", "Utf16Le"} THEN 2 ELSE 1

StringGet(encoding, data, native_le) ==
    CASE encoding = "Latin1" -> data
      [] encoding = "Utf8" -> Utf8Lossy(data)
      [] encoding = "Utf16Be" -> StrFromUtf16(data, FALSE)
      [] encoding = "Utf16Le" -> StrFromUtf16(data, TRUE)
      [] encoding = "Utf16" ->
            IF Len(data) >= 2 /\ data[1] = 255 /\ data[2] = 254 THEN StrFromUtf16(Drop(data, 2), TRUE)
            ELSE IF Len(data) >= 2 /\ data[1] = 254 /\ data[2] = 255 THEN StrFromUtf16(Drop(data, 2), FALSE)
            ELSE StrFromUtf16(data, native_le)

\* The offset of the terminator from the offset size on, or the length of
\* the data when there is none.
RECURSIVE SearchNul(_, _, _)
SearchNul(data, width, size) ==
    IF size + width > Len(data) THEN [found |-> FALSE, size |-> Len(data)]
    ELSE IF \A k \in 1..width : data[size + k] = 0 THEN [found |-> TRUE, size |-> size]
    ELSE SearchNul(data, width, size + width)

StringTerminated(encoding, data, nul, native_le) ==
    [string |-> StringGet(encoding, SubSeq(data, 1, nul.size), native_le),
     size |-> IF nul.found THEN nul.size + NulSize(encoding) ELSE nul.size]

StringGetTerminated(encoding, data, native_le) ==
    StringTerminated(encoding, data, SearchNul(data, NulSize(encoding), 0), native_le)

(***************************************************************************)
(* SyncedLyricsFrame::parse.  A lyric keeps the offset it was read at.     *)
(***************************************************************************)
SyltErr(result) ==
    [result |-> result, encoding |-> "Latin1", lang |-> <<>>, time_format |-> 0,
     content_type |-> 0, desc |-> <<>>, lyrics |-> <<>>]

LyricsPanic == [panic |-> TRUE, lyrics |-> <<>>]

\* raw::to_u16 of the two bytes at the offset pos.
U16At(data, pos) == data[pos + 1] * 256 + data[pos + 2]

\* The implicit encoding always taken for a lyric.
LyricEncodingImplicit(encoding, implicit_encoding, bom) == implicit_encoding

\* The encoding of a lyric whose first two bytes are bom.
LyricEncoding(encoding, implicit_encoding, bom) ==
    IF bom # 65279 /\ bom # 65534 THEN implicit_encoding ELSE encoding

RECURSIVE SyltLyrics(_, _, _, _, _, _)
\* The timestamp after the text of a lyric and the push of the pair.
SyltLyric(data, encoding, implicit_encoding, pos, lyrics, native_le, enc, text) ==
    IF pos + text.size + 4 > Len(data) THEN LyricsPanic
    ELSE SyltLyrics(data, encoding, implicit_encoding, pos + text.size + 4,
                    Append(lyrics, [text |-> text.string,
                                    timestamp |-> SubSeq(data, pos + text.size + 1, pos + text.size + 4),
                                    at |-> pos]),
                    native_le)

SyltLyricText(data, encoding, implicit_encoding, pos, lyrics, native_le, enc) ==
    SyltLyric(data, encoding, implicit_encoding, pos, lyrics, native_le, enc,
              StringGetTerminated(enc, Drop(data, pos), native_le))

\* while pos < data.len()
SyltLyrics(data, encoding, implicit_encoding, pos, lyrics, native_le) ==
    IF pos >= Len(data) THEN [panic |-> FALSE, lyrics |-> lyrics]
    ELSE IF pos + 2 > Len(data) THEN LyricsPanic
    ELSE SyltLyricText(data, encoding, implicit_encoding, pos, lyrics, native_le,
                       LyricEncoding(encoding, implicit_encoding, U16At(data, pos)))

\* The fields at the offsets of the stated layout: time format at byte 4,
\* content type at byte 5, description from byte 6 on.
SyltLayoutStated == [time_format |-> 4, content_type |-> 5, desc |-> 6]

\* The offsets parse reads: data[5], data[6], data[7..].
SyltLayout == [time_format |-> 5, content_type |-> 6, desc |-> 7]

SyltImplicit(encoding, data) ==
    IF encoding = "Utf16"
    THEN CASE U16At(data, SyltLayout.desc) = 65534 -> "Utf16Le"
           [] U16At(data, SyltLayout.desc) = 65279 -> "Utf16Be"
           [] OTHER -> encoding
    ELSE encoding

SyltDone(data, encoding, desc, l) ==
    IF l.panic THEN SyltErr("Panic")
    ELSE [result |-> "Ok", encoding |-> encoding,
          lang |-> Utf8Lossy(SubSeq(data, 2, 4)),
          time_format |-> data[SyltLayout.time_format + 1],
          content_type |-> data[SyltLayout.content_type + 1],
          desc |-> desc.string,
          lyrics |-> l.lyrics]

\* The slice data[7..9] of a UTF-16 frame panics on a body of 8 bytes.
SyltDesc(data, encoding, desc, native_le) ==
    IF encoding = "Utf16" /\ Len(data) < SyltLayout.desc + 2 THEN SyltErr("Panic")
    ELSE SyltDone(data, encoding, desc,
                  SyltLyrics(data, encoding, SyltImplicit(encoding, data),
                             desc.size + SyltLayout.desc, <<>>, native_le))

SyltEncoded(data, e, native_le) ==
    IF ~e.ok THEN SyltErr(e.err)
    ELSE IF Len(data) < NulSize(e.encoding) + 6 THEN SyltErr("NotEnoughData")
    ELSE SyltDesc(data, e.encoding,
                  StringGetTerminated(e.encoding, Drop(data, SyltLayout.desc), native_le),
                  native_le)

SyltParse(data, native_le) == SyltEncoded(data, EncodingParse(data), native_le)

(***************************************************************************)
(* TableOfContentsFrame::parse.                                            *)
(***************************************************************************)
TocErr(result) ==
    [result |-> result, element_id |-> <<>>, flags |-> [top_level |-> FALSE, ordered |-> FALSE],
     elements |-> <<>>, frames |-> <<>>]

\* The second loop: while pos < data.len(), frames::new, pos += size + 10.
RECURSIVE TocFrames(_, _, _, _)
TocFramesStep(header, data, pos, frames, r) ==
    IF ~r.ok THEN frames
    ELSE TocFrames(header, data, NestedAdvance(header, pos, r), FrameMapAdd(frames, r.frame))

TocFrames(header, data, pos, frames) ==
    IF pos >= Len(data) THEN frames
    ELSE TocFramesStep(header, data, pos, frames, FramesNew(header, data, pos))

\* The first loop: while i < entry_count && pos < data.len().
RECURSIVE TocElements(_, _, _, _, _)
TocElement(data, entry_count, pos, i, elements, element) ==
    TocElements(data, entry_count, pos + element.size, i + 1, Append(elements, element.string))

TocElements(data, entry_count, pos, i, elements) ==
    IF i < entry_count /\ pos < Len(data)
    THEN TocElement(data, entry_count, pos, i, elements,
                    StringGetTerminated("Utf8", Drop(data, pos), TRUE))
    ELSE [pos |-> pos, elements |-> elements]

\* The elements read from the byte after the entry count on.
TocElementsStartAfterCount(elem_size) == elem_size + 2

\* let mut pos = elem_id.size + 1
TocElementsStart(elem_size) == elem_size + 1

TocRead(header, data, elem, e) ==
    [result |-> "Ok", element_id |-> elem.string,
     flags |-> [top_level |-> BitAt(6, data[elem.size + 1]), ordered |-> BitAt(7, data[elem.size + 1])],
     elements |-> e.elements,
     frames |-> TocFrames(header, data, e.pos, <<>>)]

\* data[elem_id.size] and data[elem_id.size + 1] panic past the end.
TocFlagsRead(header, data, elem) ==
    IF elem.size + 1 >= Len(data) THEN TocErr("Panic")
    ELSE TocRead(header, data, elem,
                 TocElements(data, data[elem.size + 2], TocElementsStart(elem.size), 0, <<>>))

TocParse(header, data) ==
    IF Len(data) < 4 THEN TocErr("NotEnoughData")
    ELSE TocFlagsRead(header, data, StringGetTerminated("Utf8", data, TRUE))

(***************************************************************************)
(* OwnershipFrame::parse.                                                  *)
(***************************************************************************)
OwnerErr(result) ==
    [result |-> result, encoding |-> "Latin1", price_paid |-> <<>>, purchase_date |-> <<>>,
     seller |-> <<>>]

\* The slices data[price.size..price.size + 9] and data[price.size + 9..],
\* price.size counted from byte 1 on, panic when they end past the data.
OwnerPriced(data, encoding, price, native_le) ==
    IF price.size + 9 > Len(data) THEN OwnerErr("Panic")
    ELSE [result |-> "Ok", encoding |-> encoding,
          price_paid |-> price.string,
          purchase_date |-> StringGet("Latin1", SubSeq(data, price.size + 1, price.size + 9), native_le),
          seller |-> StringGet(encoding, Drop(data, price.size + 9), native_le)]

OwnerEncoded(data, e, native_le) ==
    IF ~e.ok THEN OwnerErr(e.err)
    ELSE IF Len(data) < NulSize(e.encoding) + 9 THEN OwnerErr("NotEnoughData")
    ELSE OwnerPriced(data, e.encoding, StringGetTerminated("Latin1", Drop(data, 1), native_le),
                     native_le)

OwnershipParse(data, native_le) == OwnerEncoded(data, EncodingParse(data), native_le)

\* OWNE bodies: encoding, price, date, seller.
Date8 == <<50, 48, 48, 52, 48, 53, 48, 54>>

OwnerBodies ==
    {<<e>> \o p \o d \o sl :
        e \in {0, 1, 3}, p \in {<<0>>, <<49, 0>>, <<49, 50, 0>>, <<49>>},
        d \in {Date8, Take(Date8, 7)},
        sl \in {<<>>, <<83>>, <<83, 0>>, <<255, 254, 83, 0>>, <<254, 255, 0, 83>>}}
    \cup ByteSeqs({0, 1, 49}, MaxLen)

(***************************************************************************)
(* EventTimingCodesFrame::new.                                             *)
(***************************************************************************)
\* A loop that leaves out an event that ends with the body.
RECURSIVE EventsFromStrict(_, _, _)
EventsFromStrict(data, pos, events) ==
    IF pos + 5 < Len(data)
    THEN EventsFromStrict(data, pos + 5,
                          Append(events, [event_type |-> data[pos + 1],
                                          timestamp |-> ToU32(SubSeq(data, pos + 2, pos + 5))]))
    ELSE events

\* while pos + 4 < data.len(): the type at pos, the timestamp after it.
RECURSIVE EventsFrom(_, _, _)
EventsFrom(data, pos, events) ==
    IF pos + 4 < Len(data)
    THEN EventsFrom(data, pos + 5,
                    Append(events, [event_type |-> data[pos + 1],
                                    timestamp |-> ToU32(SubSeq(data, pos + 2, pos + 5))]))
    ELSE events

EventsNew(data) ==
    IF data = <<>> THEN [some |-> FALSE, time_format |-> 0, events |-> <<>>]
    ELSE [some |-> TRUE, time_format |-> data[1], events |-> EventsFrom(data, 1, <<>>)]

\* ETCO bodies: every sequence of the two bytes up to MaxBody bytes.
EventBytes == {1, 127}

\* SYLT bodies: encoding, language, the two bytes of time format and content
\* type directly after the language or, as in the tests, after a NUL, a
\* description, lyrics with timestamps and a tail.
Stamp1 == <<0, 2, 120, 208>>

Stamp2 == <<0, 2, 136, 112>>

SyltMids == {<<2, 1>>, <<0, 2, 1>>}

SyltTails == {<<>>, <<65>>, <<65, 0, 0, 0>>}

SyltByteDescs == {<<68, 0>>, <<0>>, <<68>>}

SyltByteLyrics == {<<65, 0>> \o Stamp1, <<66, 0>> \o Stamp2}

SyltWideDescs == {<<255, 254, 68, 0, 0, 0>>, <<254, 255, 0, 68, 0, 0>>, <<68, 0, 0, 0>>, <<>>}

SyltWideLyrics ==
    {<<65, 0, 0, 0>> \o Stamp1, <<0, 65, 0, 0>> \o Stamp1,
     <<254, 255, 0, 66, 0, 0>> \o Stamp2, <<255, 254, 66, 0, 0, 0>> \o Stamp2}

UpToTwo(parts) == {<<>>} \cup parts \cup {a \o b : a, b \in parts}

SyltBodies ==
    {<<e>> \o Eng \o m \o d \o l \o t :
        e \in {0, 3}, m \in SyltMids, d \in SyltByteDescs, l \in UpToTwo(SyltByteLyrics), t \in SyltTails}
    \cup
    {<<e>> \o Eng \o m \o d \o l \o t :
        e \in {1, 2}, m \in SyltMids, d \in SyltWideDescs, l \in UpToTwo(SyltWideLyrics), t \in SyltTails}
    \cup ByteSeqs({0, 1, 65}, MaxLen)

\* CTOC bodies: element id, flags, entry count, child element ids, frames.
TocChildren == {<<99, 0>>, <<100, 0>>, <<100>>}

TocBodies ==
    {e \o <<f, n>> \o c \o fr :
        e \in {<<116, 0>>, <<0>>, <<116>>}, f \in {0, 3}, n \in 0..3, c \in UpToTwo(TocChildren),
        fr \in {<<>>, FrameRender("V24", SongFrame),
                FrameRender("V24", SongFrame) \o FrameRender("V24", YearFrame)}}
    \cup ByteSeqs({0, 1, 116}, MaxLen)

(***************************************************************************)
(* Specification of the codecs and frame parsers called on drawn inputs.   *)
(***************************************************************************)
SyltCalls ==
    {[fn |-> "SyncedLyricsFrame::parse", phase |-> "drawn",
      in |-> [data |-> d, native_le |-> n], out |-> SyltErr("None")] :
        d \in SyltBodies, n \in BOOLEAN}

OwnerCalls ==
    {[fn |-> "OwnershipFrame::parse", phase |-> "drawn",
      in |-> [data |-> d, native_le |-> n], out |-> OwnerErr("None")] :
        d \in OwnerBodies, n \in BOOLEAN}

EventCalls ==
    {[fn |-> "EventTimingCodesFrame::new", phase |-> "drawn", in |-> d,
      out |-> [some |-> FALSE, time_format |-> 0, events |-> <<>>]] :
        d \in ByteSeqs(EventBytes, MaxBody)}

TocCalls ==
    {[fn |-> "TableOfContentsFrame::parse", phase |-> "drawn",
      in |-> [header |-> TagHeaderWithVersion("V24"), data |-> d], out |-> TocErr("None")] :
        d \in TocBodies}

OpenCalls ==
    {[fn |-> "Tag::open", phase |-> "drawn",
      in |-> [header |-> TagHeaderWithVersion(v), data |-> d], out |-> OpenErr("None")] :
        v \in {"V24"}, d \in OpenBodies("V24")}
    \cup
    {[fn |-> "Tag::open", phase |-> "drawn",
      in |-> [header |-> TagHeaderWithVersion(v), data |-> d], out |-> OpenErr("None")] :
        v \in {"V23"}, d \in OpenBodies("V23")}

ChapterBodies(version) ==
    {e \o t \o n : e \in ChapterElements, t \in ChapterTimes, n \in NestedBodies(version)}

ChapterCalls ==
    {[fn |-> "ChapterFrame::parse", phase |-> "drawn",
      in |-> [header |-> TagHeaderWithVersion(v), data |-> d], out |-> ChapterErr("None")] :
        v \in {"V24"}, d \in ChapterBodies("V24")}
    \cup
    {[fn |-> "ChapterFrame::parse", phase |-> "drawn",
      in |-> [header |-> TagHeaderWithVersion(v), data |-> d], out |-> ChapterErr("None")] :
        v \in {"V23"}, d \in ChapterBodies("V23")}

TerminatedCalls ==
    {[fn |-> "get_terminated_string", phase |-> "drawn",
      in |-> [encoding |-> e, data |-> d, native_le |-> n], out |-> Panic] :
        e \in Encodings, d \in ByteSeqs(TextBytes, MaxLen) \cup TextExamples, n \in BOOLEAN}

StringCalls ==
    {[fn |-> "get_string", phase |-> "drawn",
      in |-> [encoding |-> e, data |-> d, native_le |-> n], out |-> Panic] :
        e \in Encodings, d \in ByteSeqs(TextBytes, MaxLen) \cup TextExamples, n \in BOOLEAN}

KeyCalls == {[fn |-> "key", phase |-> "drawn", in |-> <<f, g>>, out |-> <<>>] : f, g \in KeyFrames}

\* Values below 2^28 and 4-byte buffers for the syncsafe codec.
SyncsafeValues ==
    {0, 1, 127, 128, 255, 256, 16383, 16384, 140464, 854058, 2097151, 2097152, 256000000, 268435455}

SyncsafeBytes == {0, 8, 48, 73, 127, 128, 255}

SyncsafeCalls ==
    {[fn |-> "syncsafe_encode", phase |-> "drawn", in |-> x, out |-> <<>>] : x \in SyncsafeValues}
    \cup {[fn |-> "syncsafe_decode", phase |-> "drawn", in |-> b, out |-> <<>>] :
              b \in [1..4 -> SyncsafeBytes]}

\* Bodies for the sync codec, under each version and unsync flag.
SyncBytes == {0, 1, 255}

SyncCalls ==
    {[fn |-> "sync", phase |-> "drawn", in |-> [data |-> d, version |-> v, unsync |-> u], out |-> <<>>] :
        d \in ByteSeqs(SyncBytes, MaxLen), v \in Versions, u \in BOOLEAN}

\* The 10 bytes handed to TagHeader::parse: those of the tests and others.
HeaderV3 == <<73, 68, 51, 3, 0, 160, 0, 8, 73, 48>>

HeaderV4 == <<73, 68, 51, 4, 0, 80, 0, 8, 73, 48>>

HeaderFlagBytes == {0, 16, 32, 64, 80, 128, 160, 240}

TagHeaderCalls ==
    {[fn |-> "TagHeader::parse", phase |-> "drawn", in |-> magic \o <<major, minor, flag_byte>> \o size,
      out |-> <<>>] :
        magic \in {ID, <<73, 68, 50>>, <<0, 68, 51>>}, major \in 2..5, minor \in {0, 1},
        flag_byte \in HeaderFlagBytes, size \in {<<0, 8, 73, 48>>, <<0, 0, 0, 0>>, <<0, 128, 0, 0>>}}
    \cup {[fn |-> "TagHeader::parse", phase |-> "drawn", in |-> raw, out |-> <<>>] : raw \in {HeaderV3, HeaderV4}}

\* The bytes handed to FrameHeader::parse: those of the tests and others.
FrameHeaderV3 == TXXX \o <<0, 10, 113, 123, 160, 64>>

FrameHeaderV4 == TXXX \o <<0, 52, 16, 42, 80, 75>>

FrameFlagBytes == {0, 16, 32, 64, 75, 80, 128, 160, 255}

FrameHeaderCalls ==
    {[fn |-> "FrameHeader::parse", phase |-> "drawn",
      in |-> [version |-> v, data |-> id \o size \o <<b1, b2>>], out |-> <<>>] :
        v \in {"V23", "V24"}, id \in {TXXX, TIT2},
        size \in {<<0, 10, 113, 123>>, <<0, 52, 16, 42>>, <<0, 0, 0, 5>>, <<0, 0, 1, 128>>},
        b1 \in FrameFlagBytes, b2 \in FrameFlagBytes}

CodecInit ==
    /\ file = NoFile
    /\ tag = TagNew
    /\ last = NoLast
    /\ sz = NoSizes
    /\ \/ call \in KeyCalls
       \/ call \in TerminatedCalls
       \/ call \in StringCalls
       \/ call \in SyncsafeCalls
       \/ call \in SyncCalls
       \/ call \in TagHeaderCalls
       \/ call \in FrameHeaderCalls
       \/ call \in ChapterCalls
       \/ call \in OpenCalls
       \/ call \in SyltCalls
       \/ call \in TocCalls
       \/ call \in EventCalls
       \/ call \in OwnerCalls

CallKey ==
    /\ call.fn = "key" /\ call.phase = "drawn"
    /\ call' = [call EXCEPT !.phase = "done", !.out = <<FrameKey(call.in[1]), FrameKey(call.in[2])>>]
    /\ UNCHANGED <<file, tag, last, sz>>

CallTerminated ==
    /\ call.fn = "get_terminated_string" /\ call.phase = "drawn"
    /\ call' = [call EXCEPT !.phase = "done",
                            !.out = get_terminated_string(call.in.encoding, call.in.data, call.in.native_le)]
    /\ UNCHANGED <<file, tag, last, sz>>

CallString ==
    /\ call.fn = "get_string" /\ call.phase = "drawn"
    /\ call' = [call EXCEPT !.phase = "done",
                            !.out = get_string(call.in.encoding, call.in.data, call.in.native_le)]
    /\ UNCHANGED <<file, tag, last, sz>>

CallSyncsafeEncode ==
    /\ call.fn = "syncsafe_encode" /\ call.phase = "drawn"
    /\ call' = [call EXCEPT !.phase = "done",
                            !.out = [bytes |-> SyncsafeEncode(call.in),
                                     back |-> SyncsafeParse(SyncsafeEncode(call.in))]]
    /\ UNCHANGED <<file, tag, last, sz>>

CallSyncsafeDecode ==
    /\ call.fn = "syncsafe_decode" /\ call.phase = "drawn"
    /\ call' = [call EXCEPT !.phase = "done", !.out = SyncsafeParse(call.in)]
    /\ UNCHANGED <<file, tag, last, sz>>

\* The header of a tag of a version with the unsync flag as given.
SyncHeader(version, unsync) == [TagHeaderWithVersion(version) EXCEPT !.flags.unsync = unsync]

CallSync ==
    /\ call.fn = "sync" /\ call.phase = "drawn"
    /\ call' = [call EXCEPT !.phase = "done",
                            !.out = [encoded |-> SyncEncode(call.in.data),
                                     back |-> SyncDecode(SyncEncode(call.in.data)),
                                     decoded |-> SyncDecode(call.in.data),
                                     opened |-> OpenData(SyncHeader(call.in.version, call.in.unsync),
                                                         call.in.data)]]
    /\ UNCHANGED <<file, tag, last, sz>>

CallTagHeader ==
    /\ call.fn = "TagHeader::parse" /\ call.phase = "drawn"
    /\ call' = [call EXCEPT !.phase = "done", !.out = TagHeaderParse(call.in)]
    /\ UNCHANGED <<file, tag, last, sz>>

FrameHeaderParsed(header, version) ==
    [header |-> header, flags |-> FrameFlagsParse(version, header.flags)]

CallFrameHeader ==
    /\ call.fn = "FrameHeader::parse" /\ call.phase = "drawn"
    /\ call' = [call EXCEPT !.phase = "done",
                            !.out = FrameHeaderParsed(FrameHeaderParse(call.in.version, call.in.data),
                                                      call.in.version)]
    /\ UNCHANGED <<file, tag, last, sz>>

CallChapter ==
    /\ call.fn = "ChapterFrame::parse" /\ call.phase = "drawn"
    /\ call' = [call EXCEPT !.phase = "done", !.out = ChapterParse(call.in.header, call.in.data)]
    /\ UNCHANGED <<file, tag, last, sz>>

\* Tag::open from the bytes read after the tag header on.
CallOpen ==
    /\ call.fn = "Tag::open" /\ call.phase = "drawn"
    /\ call' = [call EXCEPT !.phase = "done", !.out = OpenRead(call.in.header, call.in.data)]
    /\ UNCHANGED <<file, tag, last, sz>>

CallSylt ==
    /\ call.fn = "SyncedLyricsFrame::parse" /\ call.phase = "drawn"
    /\ call' = [call EXCEPT !.phase = "done", !.out = SyltParse(call.in.data, call.in.native_le)]
    /\ UNCHANGED <<file, tag, last, sz>>

CallToc ==
    /\ call.fn = "TableOfContentsFrame::parse" /\ call.phase = "drawn"
    /\ call' = [call EXCEPT !.phase = "done", !.out = TocParse(call.in.header, call.in.data)]
    /\ UNCHANGED <<file, tag, last, sz>>

CallOwner ==
    /\ call.fn = "OwnershipFrame::parse" /\ call.phase = "drawn"
    /\ call' = [call EXCEPT !.phase = "done", !.out = OwnershipParse(call.in.data, call.in.native_le)]
    /\ UNCHANGED <<file, tag, last, sz>>

CallEvents ==
    /\ call.fn = "EventTimingCodesFrame::new" /\ call.phase = "drawn"
    /\ call' = [call EXCEPT !.phase = "done", !.out = EventsNew(call.in)]
    /\ UNCHANGED <<file, tag, last, sz>>

CodecNext ==
    \/ CallEvents
    \/ CallOwner
    \/ CallSylt
    \/ CallToc
    \/ CallChapter
    \/ CallOpen
    \/ CallTagHeader
    \/ CallFrameHeader
    \/ CallKey
    \/ CallTerminated
    \/ CallString
    \/ CallSyncsafeEncode
    \/ CallSyncsafeDecode
    \/ CallSync

CodecSpec == CodecInit /\ [][CodecNext]_vars

(***************************************************************************)
(* Properties.                                                             *)
(***************************************************************************)
SavedOk == last.op = "save" /\ last.result = "Ok"

\* The bytes of the file before the last operation (none when no file).
File0 == IF last.file0 = NoFile THEN <<>> ELSE last.file0

\* The file before the last operation starts with a parseable tag header.
File0HasTag == Len(File0) >= 10 /\ TagHeaderParse(SubSeq(File0, 1, 10)).ok

\* The bytes of the file before the last operation that belong to no tag.
File0Rest ==
    IF File0HasTag
    THEN Drop(File0, Min(TagHeaderParse(SubSeq(File0, 1, 10)).header.size + 10, Len(File0)))
    ELSE File0

\* The number of bytes the last save wrote at the start of the file.
WrittenLen == IF last.deleted THEN 0 ELSE 10 + tag.header.size

\* C1: after a save, the file is the newly written tag followed by every
\* byte of the old file that was not part of a tag found at its start: the
\* bytes from offset S+10 on when the old header declares size S, and all
\* bytes of the old file when it has no parseable header.
C1_SaveKeepsRest ==
    SavedOk => /\ Len(file) = WrittenLen + Len(File0Rest)
               /\ Drop(file, WrittenLen) = File0Rest

C3_TooLargeAsStated ==
    (sz.phase = "saved" /\ ~sz.deleted) =>
        (sz.result = "TooLarge" <=> sz.tag_len + sz.padding > 268435455)

\* C3 amended: save returns TooLarge exactly when the final tag size (body +
\* padding) exceeds 256000000; every final size up to and including
\* 256000000 is accepted, and the sum does not wrap.
C3_TooLarge ==
    (sz.phase = "saved" /\ ~sz.deleted) =>
        /\ sz.result = "TooLarge" <=> sz.tag_len + sz.padding > 256000000
        /\ sz.result = "Ok" <=> sz.tag_len + sz.padding <= 256000000
        /\ sz.result = "Ok" => sz.tag_size = sz.tag_len + sz.padding

C3_Witness ==
    /\ sz.phase = "saved" /\ sz.result = "TooLarge"
    /\ sz.tag_len + sz.padding > 256000000 /\ sz.tag_len + sz.padding <= 268435455

\* The tag reopened after a save: its version is the saved version, its frame
\* map is the frame map that was saved and its unknown frames are the
\* written ones, so the padding adds no frame.
ReopenedAsSaved ==
    /\ last'.result = "Ok"
    /\ tag'.header.version = SaveVersionFor(last.tag0.header.version)
    /\ tag'.frames = last.tag0.frames
    /\ \A i \in 1..Len(tag'.frames) : Key(tag'.frames[i]) = Key(last.tag0.frames[i])
    /\ tag'.unknown_frames.frames = IF last.wrote_unknown THEN last.tag0.unknown_frames.frames ELSE <<>>

\* The last operation was a successful save of a tag whose frames needed no
\* conversion, and the next one is open.
SaveThenOpen == SavedOk /\ tag.frames = last.tag0.frames /\ last'.op = "open"

\* C4 as stated: for a tag whose known frames need no version conversion,
\* save followed by open yields a tag of the saved version with the same
\* frame map.
C4_RoundTripAsStated == [][SaveThenOpen => ReopenedAsSaved]_vars

\* C4 amended: the same, provided save rendered at least one frame (with no
\* frame to write save deletes the tag, and open finds none).
C4_RoundTrip == [][(SaveThenOpen /\ ~last.deleted) => ReopenedAsSaved]_vars

C4_Witness ==
    /\ last.op = "open" /\ last.prev = "save" /\ last.result = "Ok"
    /\ Len(tag.frames) = 2 /\ tag.header.size > Len(FrameMapRender(tag.header, tag.frames))

\* The bytes save renders for the unknown frames of tag t under header h.
UnknownBytes(h, t) ==
    IF t.unknown_frames.version = h.version THEN UnknownsRender(h, t.unknown_frames.frames) ELSE <<>>

\* C5: save renders the unknown frames exactly when their stored version is
\* the tag's version after the forced upgrade; update and save leave the
\* unknown frames and their version unchanged, clear empties them and open
\* stores them under the version read from the file; so unknown frames
\* parsed from a v2.2 tag are never written.
C5_UnknownFrames ==
    [][/\ last'.op \in {"update", "save", "add"} => tag'.unknown_frames = tag.unknown_frames
       /\ last'.op = "clear" => tag'.unknown_frames.frames = <<>>
       /\ (last'.op = "open" /\ last'.result = "Ok") =>
              tag'.unknown_frames.version = VersionOfMajor(file[4])
       /\ last'.op = "save" =>
              /\ last'.wrote_unknown <=>
                     tag.unknown_frames.version = SaveVersionFor(tag.header.version)
              /\ last'.body = Take(last'.body, last'.start_len)
                              \o FrameMapRender(tag'.header, tag'.frames)
                              \o (IF tag.unknown_frames.version = SaveVersionFor(tag.header.version)
                                  THEN UnknownsRender(tag'.header, tag.unknown_frames.frames)
                                  ELSE <<>>)
              /\ tag.unknown_frames.version = "V22" => ~last'.wrote_unknown
      ]_vars

C5_Witness ==
    /\ last.op = "save" /\ last.tag0.unknown_frames.version = "V22"
    /\ tag.unknown_frames.frames # <<>> /\ ~last.wrote_unknown

\* C6: save forces the version before rendering (2.2 and 2.3 to 2.3, 2.4 to
\* 2.4) and every header it writes carries that version, never 2.2; a tag
\* opened from a file reports the version of the file, and keeps it until
\* save, update, open or new is called.
C6_ForcedVersion ==
    [][/\ last'.op = "save" =>
              /\ tag'.header.version = (IF tag.header.version = "V24" THEN "V24" ELSE "V23")
              /\ (last'.result = "Ok" /\ ~last'.deleted) =>
                     file'[4] = VersionMajor(tag'.header.version) /\ file'[4] # 2
       /\ (last'.op = "open" /\ last'.result = "Ok") => tag'.header.version = VersionOfMajor(file[4])
       /\ last'.op \in {"clear", "add"} => tag'.header.version = tag.header.version
      ]_vars

C6_Witness ==
    /\ SavedOk /\ ~last.deleted /\ last.prev = "open"
    /\ last.tag0.header.version = "V22" /\ tag.header.version = "V23"

\* The bytes of the frames save writes for the tag (known frames, then the
\* unknown frames if their version matches).
FrameBytes == FrameMapRender(tag.header, tag.frames) \o UnknownBytes(tag.header, tag)

\* The file after a save that deleted the tag / that wrote the tag.
SaveDeleted == file = Drop(File0, Min(last.old_size + 10, Len(File0))) /\ tag.header.size = 0

SaveWritten ==
    /\ file = TagHeaderRender(tag.header) \o last.body \o Zeros(last.padding)
              \o Drop(File0, Min(last.old_size + 10, Len(File0)))
    /\ tag.header.size = Len(last.body) + last.padding
    /\ last.body = Take(last.body, last.start_len) \o FrameBytes

\* The bytes of the extended header save renders for the tag.
ExtBytes ==
    IF tag.extended_header # <<>> THEN ExtendedHeaderRender(tag.extended_header[1], tag.header.version)
    ELSE <<>>

\* C7 as stated: save deletes the tag exactly when the rendered body
\* (extended header + known frames + written unknown frames) is empty.
C7_DeleteAsStated ==
    SavedOk => IF ExtBytes \o FrameBytes = <<>> THEN SaveDeleted ELSE SaveWritten

\* C7 amended: save deletes the tag exactly when the known frames and the
\* written unknown frames render to no bytes, whether or not an extended
\* header is rendered: it then replaces the bytes [0, old_size + 10) by
\* nothing and sets the header size to 0; otherwise it writes header + body
\* + padding.  clear() followed by save deletes the tag.
C7_Delete ==
    SavedOk => /\ IF FrameBytes = <<>> THEN SaveDeleted ELSE SaveWritten
               /\ last.prev = "clear" => SaveDeleted

C7_Witness ==
    /\ SavedOk /\ tag.extended_header # <<>> /\ FrameBytes = <<>>
    /\ File0HasTag /\ file = File0Rest

\* C8: every header that save writes has unsync, experimental and footer
\* clear, and extended set exactly when the tag has an extended header, whose
\* rendered bytes then start the body.
C8_WrittenFlags ==
    (SavedOk /\ ~last.deleted) =>
        LET hp == TagHeaderParse(SubSeq(file, 1, 10)) IN
        /\ hp.ok
        /\ ~hp.header.flags.unsync /\ ~hp.header.flags.experimental /\ ~hp.header.flags.footer
        /\ hp.header.flags.extended <=> tag.extended_header # <<>>
        /\ hp.header.flags.extended =>
               ExtBytes # <<>> /\ SubSeq(file, 11, 10 + Len(ExtBytes)) = ExtBytes
        /\ file[6] \in {0, 64}

C8_Witness ==
    /\ SavedOk /\ ~last.deleted /\ tag.extended_header # <<>>
    /\ last.tag0.header.flags.footer /\ file[6] = 64

\* C9: open returns NotFound whenever the first 10 bytes fail
\* TagHeader::parse with MalformedData, passes other header errors through,
\* and never returns MalformedData.
C9_OpenErrors ==
    last.op = "open" =>
        /\ last.result # "MalformedData"
        /\ (file # NoFile /\ Len(file) >= 10) =>
               LET hp == TagHeaderParse(SubSeq(file, 1, 10)) IN
               /\ (~hp.ok /\ hp.err = "MalformedData") => last.result = "NotFound"
               /\ (~hp.ok /\ hp.err # "MalformedData") => last.result = hp.err
               /\ hp.ok => last.result = "Ok"

C9_Witness ==
    last.op = "open" /\ last.result = "NotFound" /\ Len(file) >= 10 /\ SubSeq(file, 1, 3) = ID

\* The header of the file asks for an extended header that cannot be parsed.
FileExtUnparseable ==
    /\ file # NoFile /\ Len(file) >= 10
    /\ LET hp == TagHeaderParse(SubSeq(file, 1, 10)) IN
        /\ hp.ok /\ hp.header.flags.extended
        /\ ~ExtendedHeaderParse(IF hp.header.version # "V24" /\ hp.header.flags.unsync
                                THEN SyncDecode(Take(Drop(file, 10), hp.header.size))
                                ELSE Take(Drop(file, 10), hp.header.size), 0, hp.header.version).ok

\* C10: a failure of ExtendedHeader::parse is not an error of open: the flag
\* is cleared, there is no extended header and the frames are parsed; every
\* tag returned by open has the extended flag set exactly when it has an
\* extended header.
C10_ExtendedFlag ==
    last.op = "open" =>
        /\ last.result = "Ok" => (tag.header.flags.extended <=> tag.extended_header # <<>>)
        /\ FileExtUnparseable =>
               /\ last.result = "Ok"
               /\ ~tag.header.flags.extended
               /\ tag.extended_header = <<>>

C10_Witness ==
    last.op = "open" /\ FileExtUnparseable /\ last.result = "Ok" /\ tag.frames # <<>>

\* The body of the tag in the file as open parses it, and the position of
\* its first frame.
FileHeader == TagHeaderParse(SubSeq(file, 1, 10)).header

FileBody ==
    IF VersionMajor(FileHeader.version) < 4 /\ FileHeader.flags.unsync
    THEN SyncDecode(Take(Drop(file, 10), FileHeader.size))
    ELSE Take(Drop(file, 10), FileHeader.size)

FileFramesStart ==
    IF FileHeader.flags.extended THEN ExtendedHeaderParse(FileBody, 0, FileHeader.version).pos ELSE 0

\* The results of frames::parse at every frame boundary from pos on, each
\* boundary being the one before plus the header length and declared size,
\* up to the first header that cannot be parsed.
RECURSIVE FrameResults(_, _, _)
FrameResults(header, data, pos) ==
    LET fh == FrameHeaderParse(header.version, Drop(data, pos))
        r == FramesParse(header, data, pos)
    IN  IF ~r.ok THEN <<>>
        ELSE <<r>> \o FrameResults(header, data, pos + FrameHeaderLen(header.version) + fh.size)

FileResults == FrameResults(FileHeader, FileBody, FileFramesStart)

IsUnknownResult(r) == r.kind = "Unknown"

OpenedOk == last.op = "open" /\ last.result = "Ok"

\* C11: a dropped frame is no error of open and does not end the frame loop:
\* open succeeds whenever the header parses; every frame found at a frame
\* boundary of the body (boundaries advance by the declared sizes, dropped
\* frames included) is in the frame map under its key if it is known, holding
\* the last frame of that key, and the unknown frames are exactly the unknown
\* results in stream order under the version of the file; the frame map holds
\* nothing else, and no frame is in both collections.
C11_DroppedFrames ==
    last.op = "open" /\ file # NoFile /\ Len(file) >= 10 /\ TagHeaderParse(SubSeq(file, 1, 10)).ok =>
        /\ last.result = "Ok"
        /\ tag.unknown_frames.version = FileHeader.version
        /\ LET unknown == SelectSeq(FileResults, IsUnknownResult) IN
            /\ Len(tag.unknown_frames.frames) = Len(unknown)
            /\ \A i \in 1..Len(unknown) : tag.unknown_frames.frames[i] = unknown[i].unknown
        /\ \A i \in 1..Len(FileResults) :
              FileResults[i].kind = "Frame" =>
                  \E k \in 1..Len(tag.frames) :
                      /\ Key(tag.frames[k]) = Key(FileResults[i].frame)
                      /\ (\A j \in (i + 1)..Len(FileResults) :
                              ~(FileResults[j].kind = "Frame"
                                /\ Key(FileResults[j].frame) = Key(FileResults[i].frame)))
                         => tag.frames[k] = FileResults[i].frame
        /\ \A k \in 1..Len(tag.frames) :
              /\ \E i \in 1..Len(FileResults) :
                    FileResults[i].kind = "Frame" /\ FileResults[i].frame = tag.frames[k]
              /\ \A u \in 1..Len(tag.unknown_frames.frames) :
                    UpgradeV2Id(tag.unknown_frames.frames[u].id) # tag.frames[k].id

C11_Witness ==
    /\ OpenedOk
    /\ \E i, j, k \in 1..Len(FileResults) :
          /\ i < j /\ i < k
          /\ FileResults[i].kind = "Dropped"
          /\ FileResults[j].kind = "Frame" /\ FrameMapHas(tag.frames, Key(FileResults[j].frame))
          /\ FileResults[k].kind = "Unknown"
          /\ \E u \in 1..Len(tag.unknown_frames.frames) :
                tag.unknown_frames.frames[u] = FileResults[k].unknown

\* The ids the table of the target version names, as a source or as the
\* result of a conversion.
TableIds(to) ==
    IF to = "V23" THEN V3Dropped \cup V3Renamed \cup {TORY, IPLS, TYER, TDAT, TIME}
    ELSE V4Dropped \cup V4Renamed \cup {TIPL, TDRC, TDOR}

\* C13: update(to) sets the version of the header to `to` and applies the
\* table of `to`: after update(V24) the map holds none of TYER, TDAT, TIME,
\* IPLS, TORY nor a dropped id, and a TDRC starting with the year of the TYER
\* it held; after update(V23) it holds no id the table drops or renames;
\* every frame whose id the table does not name is still in the map,
\* unchanged.
C13_Update ==
    [][last'.op = "update" =>
          /\ tag'.header.version = last'.to
          /\ last'.to = "V24" =>
                /\ \A id \in V4Dropped \cup V4Renamed : ~FrameMapHas(tag'.frames, id)
                /\ FrameMapHas(tag.frames, TYER) =>
                      /\ FrameMapHas(tag'.frames, TDRC)
                      /\ Take(FrameMapGet(tag'.frames, TDRC).text, 4) = Take(FrameMapGet(tag.frames, TYER).text, 4)
          /\ last'.to = "V23" =>
                \A id \in V3Dropped \cup V3Renamed : ~FrameMapHas(tag'.frames, id)
          /\ \A i \in 1..Len(tag.frames) :
                tag.frames[i].id \notin TableIds(last'.to) =>
                    \E k \in 1..Len(tag'.frames) : tag'.frames[k] = tag.frames[i]
          /\ \A k \in 1..Len(tag'.frames) :
                tag'.frames[k].id \notin TableIds(last'.to) =>
                    \E i \in 1..Len(tag.frames) : tag'.frames[k] = tag.frames[i]
      ]_vars

C13_Witness ==
    /\ last.op = "update" /\ last.to = "V24" /\ tag.header.version = "V24"
    /\ last.tag0.header.version # "V24"
    /\ FrameMapHas(last.tag0.frames, TYER) /\ FrameMapGet(last.tag0.frames, TYER).text = Y2004
    /\ FrameMapHas(tag.frames, TDRC) /\ Take(FrameMapGet(tag.frames, TDRC).text, 4) = Y2004
    /\ ~FrameMapHas(tag.frames, TYER)
    /\ FrameMapHas(tag.frames, TIT2) /\ FrameMapGet(tag.frames, TIT2) = FrameMapGet(last.tag0.frames, TIT2)

\* A downgrade that drops, renames and splits.
C13_WitnessV23 ==
    /\ last.op = "update" /\ last.to = "V23" /\ tag.header.version = "V23"
    /\ FrameMapHas(last.tag0.frames, TMOO) /\ FrameMapHas(last.tag0.frames, TDRC)
    /\ FrameMapHas(tag.frames, TYER) /\ FrameMapHas(tag.frames, TDAT) /\ FrameMapHas(tag.frames, TIME)
    /\ FrameMapHas(tag.frames, IPLS) /\ FrameMapHas(tag.frames, TORY)

Called(fn) == call.fn = fn /\ call.phase = "done"

\* The key starts with the id, and either ends there or goes on with ':'.
KeyStartsWithId(f, key) ==
    /\ Len(key) >= Len(f.id)
    /\ SubSeq(key, 1, Len(f.id)) = f.id
    /\ Len(key) > Len(f.id) => key[Len(f.id) + 1] = 58

\* C14: the key of a frame of any variant is its id, alone or followed by
\* ':'-separated fields, so that frames with different ids have different
\* keys.
C14_KeyStartsWithId ==
    Called("key") =>
        /\ KeyStartsWithId(call.in[1], call.out[1])
        /\ KeyStartsWithId(call.in[2], call.out[2])
        /\ call.in[1].id # call.in[2].id => call.out[1] # call.out[2]

\* The offsets (1-based) of the terminators of a buffer: every 0x00 for a
\* single-byte encoding, every pair 0x00 0x00 at an even 0-based offset for
\* a double-byte one.
Terminators(encoding, data) ==
    IF encoding = "Utf8" THEN {i \in 1..Len(data) : data[i] = 0}
    ELSE {i \in 1..(Len(data) - 1) : i % 2 = 1 /\ data[i] = 0 /\ data[i + 1] = 0}

FirstOf(set) == CHOOSE i \in set : \A j \in set : i <= j

NulWidth(encoding) == IF encoding = "Utf8" THEN 1 ELSE 2

\* C15: get_terminated_string returns the decoded bytes before the first
\* terminator and the bytes consumed with the terminator; without a
\* terminator the whole buffer is the string and all of it is consumed; the
\* bytes consumed never exceed the length of the buffer, of even or odd
\* length.
C15_TerminatedString ==
    Called("get_terminated_string") =>
        LET e == call.in.encoding
            data == call.in.data
            t == Terminators(e, data)
            before == IF t = {} THEN data ELSE SubSeq(data, 1, FirstOf(t) - 1)
        IN  /\ ~call.out.panic
            /\ call.out.size <= Len(data)
            /\ call.out.size = IF t = {} THEN Len(data) ELSE FirstOf(t) - 1 + NulWidth(e)
            /\ ~get_string(e, before, call.in.native_le).panic
            /\ call.out.string = get_string(e, before, call.in.native_le).string

\* The examples of the specification: Latin1 41 00 42 gives ("A", 2) and
\* UTF-16 with BOM FF FE 41 00 00 00 gives ("A", 6).
C15_Examples ==
    Called("get_terminated_string") =>
        /\ (call.in.encoding = "Utf8" /\ call.in.data = <<65, 0, 66>>) => call.out = Returned(<<65>>, 2)
        /\ (call.in.encoding = "Utf16Bom" /\ call.in.data = <<255, 254, 65, 0, 0, 0>>)
               => call.out = Returned(<<65>>, 6)

\* C16: every x < 2^28 encodes to 4 bytes with the high bit clear that
\* decode to x; a buffer with a high bit set in any byte fails to decode with
\* MalformedData, any other decodes to the 28 bits of its bytes; 00 08 49 30
\* decodes to 140464.
C16_Syncsafe ==
    /\ Called("syncsafe_encode") =>
          /\ Len(call.out.bytes) = 4
          /\ \A i \in 1..4 : call.out.bytes[i] \in 0..127
          /\ call.out.back.ok /\ call.out.back.value = call.in
    /\ Called("syncsafe_decode") =>
          /\ (\E i \in 1..4 : call.in[i] >= 128) => ~call.out.ok /\ call.out.err = "MalformedData"
          /\ (\A i \in 1..4 : call.in[i] < 128) =>
                /\ call.out.ok
                /\ call.out.value = call.in[1] * 2097152 + call.in[2] * 16384 + call.in[3] * 128 + call.in[4]
          /\ call.in = <<0, 8, 73, 48>> => call.out.value = 140464

C16_Witness ==
    /\ Called("syncsafe_encode") /\ call.in = 268435455
    /\ call.out.bytes = <<127, 127, 127, 127>> /\ call.out.back.value = 268435455

\* The number of bytes FF in a buffer.
CountFF(data) == Cardinality({i \in 1..Len(data) : data[i] = 255})

\* The buffer without the 00 that follows an FF.
WithoutStuffing(data) ==
    LET Kept(i) == ~(i > 1 /\ data[i] = 0 /\ data[i - 1] = 255)
        kept == SelectSeq([i \in 1..Len(data) |-> i], Kept)
    IN  [k \in 1..Len(kept) |-> data[kept[k]]]

\* C17: sync encode puts 00 after every FF and nothing else, sync decode of
\* the encoded bytes gives the bytes back, and decode collapses FF 00 to FF
\* (FF 00 00 01 decodes to FF 00 01); open decodes the body it read exactly
\* when the version is below 2.4 and the unsync flag is set, and parses the
\* body as read otherwise.
C17_Unsync ==
    Called("sync") =>
        /\ call.out.back = call.in.data
        /\ Len(call.out.encoded) = Len(call.in.data) + CountFF(call.in.data)
        /\ \A i \in 1..Len(call.out.encoded) :
              call.out.encoded[i] = 255 => i < Len(call.out.encoded) /\ call.out.encoded[i + 1] = 0
        /\ call.in.data = <<255, 0, 0, 1>> => call.out.decoded = <<255, 0, 1>>
        /\ call.out.decoded = WithoutStuffing(call.in.data)
        /\ call.out.opened = IF call.in.version \in {"V22", "V23"} /\ call.in.unsync
                             THEN call.out.decoded ELSE call.in.data

C17_Witness ==
    /\ Called("sync") /\ call.in.data = <<255, 0, 0, 1>> /\ call.in.version = "V23" /\ call.in.unsync
    /\ call.out.opened = <<255, 0, 1>> /\ call.out.back = <<255, 0, 0, 1>>

\* C18: TagHeader::parse succeeds only on bytes that begin with "ID3"; the
\* header then has major = byte 3, minor = byte 4, size = the syncsafe value
\* of bytes 6..10 and, from byte 5, unsync = bit 7, extended = bit 6,
\* experimental = bit 5 and footer = bit 4 under major 4 only; the two
\* headers of the tests parse as the tests say.
C18_TagHeader ==
    Called("TagHeader::parse") =>
        /\ call.out.ok => SubSeq(call.in, 1, 3) = <<73, 68, 51>>
        /\ call.out.ok =>
              /\ VersionMajor(call.out.header.version) = call.in[4]
              /\ call.out.header.minor = call.in[5]
              /\ call.out.header.size
                     = call.in[7] * 2097152 + call.in[8] * 16384 + call.in[9] * 128 + call.in[10]
              /\ call.out.header.flags.unsync <=> (call.in[6] \div 128) % 2 = 1
              /\ call.out.header.flags.extended <=> (call.in[6] \div 64) % 2 = 1
              /\ call.out.header.flags.experimental <=> (call.in[6] \div 32) % 2 = 1
              /\ call.out.header.flags.footer <=> (call.in[4] = 4 /\ (call.in[6] \div 16) % 2 = 1)
        /\ call.in = HeaderV3 =>
              /\ call.out.ok
              /\ call.out.header = [version |-> "V23", minor |-> 0, size |-> 140464,
                                    flags |-> [unsync |-> TRUE, extended |-> FALSE,
                                               experimental |-> TRUE, footer |-> FALSE]]
        /\ call.in = HeaderV4 =>
              /\ call.out.ok
              /\ call.out.header = [version |-> "V24", minor |-> 0, size |-> 140464,
                                    flags |-> [unsync |-> FALSE, extended |-> TRUE,
                                               experimental |-> FALSE, footer |-> TRUE]]

C18_Witness ==
    /\ Called("TagHeader::parse") /\ call.in = HeaderV4 /\ call.out.ok
    /\ call.out.header.flags.footer /\ call.out.header.size = 140464

\* C19: FrameHeader::parse reads, under v2.3, a plain big-endian size and the
\* flags at bits 7/6/5 of each flag byte and, under v2.4, a syncsafe size and
\* the flags at bits 6/5/4 of the first and 6/3/2/1/0 of the second flag
\* byte; the two headers of the tests parse as the tests say.
C19_FrameHeader ==
    Called("FrameHeader::parse") =>
        LET d == call.in.data
            h == call.out.header
            f == call.out.flags
            Bit(n, byte) == (byte \div (2 ^ n)) % 2 = 1
        IN  /\ call.in.version = "V23" =>
                  /\ h.ok /\ h.id = SubSeq(d, 1, 4)
                  /\ h.size = d[5] * 16777216 + d[6] * 65536 + d[7] * 256 + d[8]
                  /\ f.tag_should_discard = Bit(7, d[9]) /\ f.file_should_discard = Bit(6, d[9])
                  /\ f.read_only = Bit(5, d[9])
                  /\ f.compressed = Bit(7, d[10]) /\ f.encrypted = Bit(6, d[10])
                  /\ f.has_group = Bit(5, d[10])
            /\ (call.in.version = "V24" /\ \A i \in 5..8 : d[i] < 128) =>
                  /\ h.ok /\ h.id = SubSeq(d, 1, 4)
                  /\ h.size = d[5] * 2097152 + d[6] * 16384 + d[7] * 128 + d[8]
                  /\ f.tag_should_discard = Bit(6, d[9]) /\ f.file_should_discard = Bit(5, d[9])
                  /\ f.read_only = Bit(4, d[9])
                  /\ f.has_group = Bit(6, d[10]) /\ f.compressed = Bit(3, d[10])
                  /\ f.encrypted = Bit(2, d[10]) /\ f.unsync = Bit(1, d[10])
                  /\ f.has_data_len = Bit(0, d[10])
            /\ (call.in.version = "V23" /\ d = FrameHeaderV3) =>
                  /\ h.id = TXXX /\ h.size = 684411
                  /\ f.tag_should_discard /\ ~f.file_should_discard /\ f.read_only
                  /\ ~f.compressed /\ f.encrypted /\ ~f.has_group
            /\ (call.in.version = "V24" /\ d = FrameHeaderV4) =>
                  /\ h.id = TXXX /\ h.size = 854058
                  /\ f.tag_should_discard /\ ~f.file_should_discard /\ f.read_only
                  /\ f.has_group /\ f.compressed /\ ~f.encrypted /\ f.unsync /\ f.has_data_len

C19_Witness ==
    /\ Called("FrameHeader::parse") /\ call.in.version = "V24" /\ call.in.data = FrameHeaderV4
    /\ call.out.header.size = 854058 /\ call.out.flags.has_data_len /\ ~call.out.flags.encrypted

(***************************************************************************)
(* Specification of the frame loops, one turn of a loop per step.          *)
(***************************************************************************)
NoLoop == [pos |-> 0, frames |-> <<>>, unknowns |-> <<>>, result |-> "None"]

\* The offset at which ChapterFrame::parse starts its loop.
ChapterStart(data) == get_terminated_string("Utf8", data, TRUE).size + 16

\* The offset at which TableOfContentsFrame::parse starts its second loop.
TocStartAfter(data, elem) ==
    TocElements(data, data[elem.size + 2], TocElementsStart(elem.size), 0, <<>>).pos

TocStart(data) == TocStartAfter(data, StringGetTerminated("Utf8", data, TRUE))

\* The bodies the two parsers go through without a panic up to their loops.
ChapterLoopBodies(version) ==
    {d \in ChapterBodies(version) : Len(d) >= 18 /\ ChapterStart(d) <= Len(d)}

TocLoopBodies ==
    {d \in TocBodies : Len(d) >= 4 /\ StringGetTerminated("Utf8", d, TRUE).size + 1 < Len(d)}

OpenLoops ==
    {[fn |-> "Tag::open", phase |-> "loop",
      in |-> [header |-> TagHeaderWithVersion(v), data |-> d], out |-> NoLoop] :
        v \in {"V24"}, d \in OpenBodies("V24")}
    \cup
    {[fn |-> "Tag::open", phase |-> "loop",
      in |-> [header |-> TagHeaderWithVersion(v), data |-> d], out |-> NoLoop] :
        v \in {"V23"}, d \in OpenBodies("V23")}

ChapterLoops ==
    {[fn |-> "ChapterFrame::parse", phase |-> "loop",
      in |-> [header |-> TagHeaderWithVersion(v), data |-> d],
      out |-> [NoLoop EXCEPT !.pos = ChapterStart(d)]] :
        v \in {"V24"}, d \in ChapterLoopBodies("V24")}
    \cup
    {[fn |-> "ChapterFrame::parse", phase |-> "loop",
      in |-> [header |-> TagHeaderWithVersion(v), data |-> d],
      out |-> [NoLoop EXCEPT !.pos = ChapterStart(d)]] :
        v \in {"V23"}, d \in ChapterLoopBodies("V23")}

TocLoops ==
    {[fn |-> "TableOfContentsFrame::parse", phase |-> "loop",
      in |-> [header |-> TagHeaderWithVersion("V24"), data |-> d],
      out |-> [NoLoop EXCEPT !.pos = TocStart(d)]] :
        d \in TocLoopBodies}

LoopInit ==
    /\ file = NoFile
    /\ tag = TagNew
    /\ last = NoLast
    /\ sz = NoSizes
    /\ \/ call \in OpenLoops
       \/ call \in ChapterLoops
       \/ call \in TocLoops

LoopDone == call' = [call EXCEPT !.phase = "done", !.out.result = "Ok"]

\* One turn of while let Ok(result) = frames::parse(&header, &mut stream).
OpenLooped(r) ==
    IF ~r.ok THEN LoopDone
    ELSE call' = [call EXCEPT !.out.pos = r.pos,
                              !.out.frames = IF r.kind = "Frame" THEN FrameMapAdd(@, r.frame) ELSE @,
                              !.out.unknowns = IF r.kind = "Unknown" THEN Append(@, r.unknown) ELSE @]

OpenLoopStep ==
    /\ call.fn = "Tag::open" /\ call.phase = "loop"
    /\ OpenLooped(FramesParse(call.in.header, call.in.data, call.out.pos))
    /\ UNCHANGED <<file, tag, last, sz>>

\* One turn of a loop of nested frames on the result r of frames::new.
NestedLooped(exhausted, r) ==
    IF exhausted \/ ~r.ok THEN LoopDone
    ELSE call' = [call EXCEPT !.out.pos = NestedAdvance(call.in.header, @, r),
                              !.out.frames = FrameMapAdd(@, r.frame)]

\* while frame_pos <= data.len()
ChapterLoopStep ==
    /\ call.fn = "ChapterFrame::parse" /\ call.phase = "loop"
    /\ NestedLooped(call.out.pos > Len(call.in.data),
                    FramesNew(call.in.header, call.in.data, call.out.pos))
    /\ UNCHANGED <<file, tag, last, sz>>

\* while pos < data.len()
TocLoopStep ==
    /\ call.fn = "TableOfContentsFrame::parse" /\ call.phase = "loop"
    /\ NestedLooped(call.out.pos >= Len(call.in.data),
                    FramesNew(call.in.header, call.in.data, call.out.pos))
    /\ UNCHANGED <<file, tag, last, sz>>

LoopNext == OpenLoopStep \/ ChapterLoopStep \/ TocLoopStep

\* A loop that can take a turn takes it: the program runs on.
LoopSpec == LoopInit /\ [][LoopNext]_vars /\ WF_vars(LoopNext)

\* The offset after the terminated element id of a chapter body.
ElementEnd(data) ==
    IF \E i \in 1..Len(data) : data[i] = 0
    THEN CHOOSE i \in 1..Len(data) : data[i] = 0 /\ \A j \in 1..(i - 1) : data[j] # 0
    ELSE Len(data)

\* The consecutive well-formed frames of the data from pos on.
RECURSIVE NestedFrames(_, _, _)
NestedFrames(header, data, pos) ==
    LET r == FramesParse(header, data, pos) IN
    IF pos > Len(data) \/ ~r.ok \/ r.kind # "Frame" THEN <<>>
    ELSE <<r.frame>> \o NestedFrames(header, data, r.pos)

\* The frame map holds the frames of the list, the last one of each key, and
\* the list itself when its keys differ.
HoldsFrames(map, list) ==
    /\ \A i \in 1..Len(list) :
          \E k \in 1..Len(map) :
              /\ Key(map[k]) = Key(list[i])
              /\ (\A j \in (i + 1)..Len(list) : Key(list[j]) # Key(list[i])) => map[k] = list[i]
    /\ \A k \in 1..Len(map) : \E i \in 1..Len(list) : map[k] = list[i]
    /\ (\A i, j \in 1..Len(list) : i # j => Key(list[i]) # Key(list[j])) => map = list

UniqueKeys(map) == \A i, j \in 1..Len(map) : i # j => Key(map[i]) # Key(map[j])

\* The frames among the results of frame dispatch, in order.
RECURSIVE FramesOf(_)
FramesOf(results) ==
    IF results = <<>> THEN <<>>
    ELSE (IF Head(results).kind = "Frame" THEN <<Head(results).frame>> ELSE <<>>)
         \o FramesOf(Tail(results))

HasDuplicateKey(list) == \E i, j \in 1..Len(list) : i < j /\ Key(list[i]) = Key(list[j])

\* C12: the keys of a FrameMap are unique after any sequence of adds, and an
\* add of a frame whose key is in the map leaves one entry of that key, the
\* frame added later, both for the frames Tag::open adds and for the nested
\* frames ChapterFrame::parse adds.
C12_UniqueKeys ==
    /\ Called("Tag::open") =>
          /\ UniqueKeys(call.out.tag.frames)
          /\ HoldsFrames(call.out.tag.frames,
                         FramesOf(FrameResults(call.in.header, call.in.data, 0)))
    /\ (Called("ChapterFrame::parse") /\ call.out.result = "Ok") =>
          /\ UniqueKeys(call.out.frames)
          /\ HoldsFrames(call.out.frames,
                         NestedFrames(call.in.header, call.in.data, ElementEnd(call.in.data) + 16))

\* Tag::open has added two frames of the key TIT2 and holds the later one.
C12_Witness ==
    /\ Called("Tag::open")
    /\ HasDuplicateKey(FramesOf(FrameResults(call.in.header, call.in.data, 0)))
    /\ call.in.data = FrameRender("V24", SongFrame)
                      \o FrameRender("V24", YearFrame)
                      \o FrameRender("V24", [id |-> TIT2, encoding |-> 0, text |-> Y2004])
    /\ Len(call.out.tag.frames) = 2
    /\ call.out.tag.frames[1] = [id |-> TIT2, encoding |-> 0, text |-> Y2004]

\* ChapterFrame::parse has added two nested frames of the key TIT2.
C12_WitnessNested ==
    /\ Called("ChapterFrame::parse") /\ call.out.result = "Ok"
    /\ HasDuplicateKey(NestedFrames(call.in.header, call.in.data, ElementEnd(call.in.data) + 16))
    /\ call.out.frames = <<[id |-> TIT2, encoding |-> 0, text |-> Y2004]>>

\* The keys of the map are in the order in which the list first has them.
InOrder(map, list) ==
    \A a, b \in 1..Len(map) :
        a < b => \E i \in 1..Len(list) :
                    /\ Key(list[i]) = Key(map[a])
                    /\ \A j \in 1..i : Key(list[j]) # Key(map[b])

\* C20: ChapterFrame::parse of a body that holds a terminated element id
\* and the 16 bytes of times hands the bytes after them to frame dispatch
\* again and again: the chapter's FrameMap holds every consecutive
\* well-formed nested frame, in order, up to the first failure of dispatch or
\* the end of the body; a nested failure does not fail the parse; a body with
\* one nested TIT2 gives exactly that one frame.
C20_ChapterParse ==
    Called("ChapterFrame::parse") =>
        /\ Len(call.in.data) < 18 => call.out.result = "NotEnoughData"
        /\ (Len(call.in.data) >= 18 /\ ElementEnd(call.in.data) + 16 <= Len(call.in.data)) =>
              /\ call.out.result = "Ok"
              /\ call.out.element_id = SubSeq(call.in.data, 1, ElementEnd(call.in.data) - 1)
              /\ HoldsFrames(call.out.frames,
                             NestedFrames(call.in.header, call.in.data, ElementEnd(call.in.data) + 16))
              /\ InOrder(call.out.frames,
                         NestedFrames(call.in.header, call.in.data, ElementEnd(call.in.data) + 16))
        /\ call.in.data = <<97, 0>> \o Zeros(16) \o FrameRender(call.in.header.version, SongFrame)
              => call.out.result = "Ok" /\ call.out.frames = <<SongFrame>>

\* A chapter has taken two nested frames and stopped at a third that fails.
C20_Witness ==
    /\ Called("ChapterFrame::parse")
    /\ call.in.data = <<97, 0>> \o Zeros(16) \o FrameRender("V24", SongFrame)
                      \o FrameRender("V24", YearFrame)
    /\ call.out.result = "Ok"
    /\ call.out.frames = <<SongFrame, YearFrame>>

\* A chapter whose first nested frame fails is parsed with no frames.
C20_WitnessFailure ==
    /\ Called("ChapterFrame::parse")
    /\ call.in.data = <<97, 0>> \o Zeros(16) \o (TYER \o <<0, 0, 0, 1, 0, 0>> \o <<9>>)
                      \o FrameRender("V24", SongFrame)
    /\ call.out.result = "Ok"
    /\ call.out.frames = <<>>

\* Tag::size.
TagSize(t) == t.header.size

\* The bytes of the file that a save down to old_size + 10 leaves in place.
KeptLen(f, old_size) == IF f = NoFile THEN 0 ELSE Len(f) - Min(old_size + 10, Len(f))

C21_WitnessSave ==
    /\ last.op = "save" /\ last.result = "Ok" /\ ~last.deleted
    /\ last.padding > 0
    /\ TagSize(tag) = Len(last.body) + last.padding
    /\ TagSize(last.tag0) # TagSize(tag)

\* A save has deleted the tag of a tag read with a size above 0.
C21_WitnessDelete ==
    /\ last.op = "save" /\ last.result = "Ok" /\ last.deleted
    /\ TagSize(last.tag0) > 0 /\ TagSize(tag) = 0

FrameParsers == {"ChapterFrame::parse", "TableOfContentsFrame::parse", "SyncedLyricsFrame::parse"}

\* C22: the parsers of frame bodies never read outside the body: on every
\* byte sequence ChapterFrame::parse, TableOfContentsFrame::parse and
\* SyncedLyricsFrame::parse return an error or complete with every index and
\* slice within the data.
C22_NoReadOutside ==
    (call.fn \in FrameParsers /\ call.phase = "done") => call.out.result # "Panic"

\* A CHAP body of 18 bytes without a NUL: the element id takes all of it and
\* the slices of the times start at its end.
C22_PanicChapter ==
    /\ Called("ChapterFrame::parse")
    /\ call.in.data = <<97, 98>> \o <<1, 1, 1, 1, 1, 1, 1, 1, 1, 1, 1, 1, 1, 1, 1, 1>>
    /\ call.out.result = "Panic"

\* A SYLT body whose last lyric is followed by one byte only.
C22_PanicSylt ==
    /\ Called("SyncedLyricsFrame::parse")
    /\ call.in.data = <<3>> \o Eng \o <<0, 2, 1>> \o <<68, 0>> \o <<65, 0>> \o Stamp1 \o <<65>>
    /\ call.out.result = "Panic"

\* A CTOC body of 4 bytes whose element id has no terminator.
C22_PanicToc ==
    /\ Called("TableOfContentsFrame::parse")
    /\ call.in.data = <<116, 116, 116, 116>>
    /\ call.out.result = "Panic"

\* The bytes of a buffer before its first terminator of one byte or of an
\* aligned pair of bytes, or the whole buffer.
ByteBefore(data) ==
    IF Terminators("Utf8", data) = {} THEN data
    ELSE SubSeq(data, 1, FirstOf(Terminators("Utf8", data)) - 1)

WideBefore(data) ==
    IF Terminators("Utf16Be", data) = {} THEN data
    ELSE SubSeq(data, 1, FirstOf(Terminators("Utf16Be", data)) - 1)

SyltOk == Called("SyncedLyricsFrame::parse") /\ call.out.result = "Ok"

\* The decoding of a description or lyric that needs no byte order mark.
DecodeBefore(encoding, bytes) ==
    CASE encoding = "Latin1" -> ByteBefore(bytes)
      [] encoding = "Utf8" -> Utf8Lossy(ByteBefore(bytes))
      [] encoding = "Utf16Be" -> StrFromUtf16(WideBefore(bytes), FALSE)
      [] encoding = "Utf16Le" -> StrFromUtf16(WideBefore(bytes), TRUE)

\* The fields of a parsed SYLT frame are those at the offsets of layout.
SyltFieldsAt(layout) ==
    /\ call.out.encoding = EncodingParse(call.in.data).encoding
    /\ call.out.lang = SubSeq(call.in.data, 2, 4)
    /\ call.out.time_format = call.in.data[layout.time_format + 1]
    /\ call.out.content_type = call.in.data[layout.content_type + 1]
    /\ call.out.encoding # "Utf16" =>
          call.out.desc = DecodeBefore(call.out.encoding, Drop(call.in.data, layout.desc))
    /\ call.out.lyrics # <<>> =>
          call.out.lyrics[1].at >= layout.desc + Len(call.out.desc)

\* C23: SyncedLyricsFrame::parse reads the encoding at byte 0, the language
\* at bytes 1..4, the time format at byte 4, the content type at byte 5 and
\* the terminated description from byte 6 on, the lyrics after it.
C23_SyltLayout == SyltOk => SyltFieldsAt(SyltLayoutStated)

\* A body of the stated layout (time format 2, content type 1, description
\* "D") parsed with time format 1, content type "D" and no description.
C23_Misread ==
    /\ SyltOk
    /\ call.in.data = <<3>> \o Eng \o <<2, 1>> \o <<68, 0>> \o <<65, 0>> \o Stamp1
    /\ call.out.time_format = 1 /\ call.out.content_type = 68 /\ call.out.desc = <<>>
    /\ Len(call.out.lyrics) = 1 /\ call.out.lyrics[1].text = <<65>>

\* The fields are read one byte further on, as the tests lay the body out.
SyltAsRead == SyltOk => SyltFieldsAt(SyltLayout)

\* Each lyric is a terminated text and the four bytes after it, and the
\* lyrics follow one another from the end of the description to the end
\* of the body.
SyltPairs ==
    SyltOk =>
        \A i \in 1..Len(call.out.lyrics) :
            LET l == call.out.lyrics[i]
                next == IF i < Len(call.out.lyrics) THEN call.out.lyrics[i + 1].at
                        ELSE Len(call.in.data)
            IN  /\ l.timestamp = SubSeq(call.in.data, next - 3, next)
                /\ call.out.encoding \in {"Latin1", "Utf8"} =>
                      /\ l.text = DecodeBefore(call.out.encoding, Drop(call.in.data, l.at))
                      /\ next = l.at + Len(ByteBefore(Drop(call.in.data, l.at))) + 1 + 4

\* The byte order mark at the start of the bytes, if any.
BomOf(bytes) ==
    IF Len(bytes) >= 2 /\ bytes[1] = 255 /\ bytes[2] = 254 THEN "Utf16Le"
    ELSE IF Len(bytes) >= 2 /\ bytes[1] = 254 /\ bytes[2] = 255 THEN "Utf16Be"
    ELSE "None"

\* C24: in a SYLT frame of the encoding UTF-16 with BOM the byte order of
\* the BOM at the start of the description is remembered: a lyric with no BOM
\* is decoded in that byte order, a lyric with its own BOM in the byte order
\* of its own BOM; in a frame of another encoding every lyric is decoded with
\* the encoding of the frame.
C24_ImplicitEncoding ==
    SyltOk =>
        \A i \in 1..Len(call.out.lyrics) :
            LET l == call.out.lyrics[i]
                bytes == Drop(call.in.data, l.at)
                remembered == BomOf(Drop(call.in.data, SyltLayout.desc))
            IN  IF call.out.encoding = "Utf16"
                THEN /\ BomOf(bytes) # "None" =>
                           l.text = DecodeBefore(BomOf(bytes), Drop(WideBefore(bytes), 2))
                     /\ (BomOf(bytes) = "None" /\ remembered # "None") =>
                           l.text = DecodeBefore(remembered, bytes)
                ELSE l.text = DecodeBefore(call.out.encoding, bytes)

\* A UTF-16 frame whose description starts with FF FE, with a lyric without
\* BOM read as little-endian and a lyric with FE FF read as big-endian.
C24_Witness ==
    /\ SyltOk
    /\ call.in.data = <<1>> \o Eng \o <<0, 2, 1>> \o <<255, 254, 68, 0, 0, 0>>
                      \o <<65, 0, 0, 0>> \o Stamp1 \o <<254, 255, 0, 66, 0, 0>> \o Stamp2
    /\ call.out.desc = <<68>>
    /\ Len(call.out.lyrics) = 2
    /\ call.out.lyrics[1].text = <<65>> /\ call.out.lyrics[1].timestamp = Stamp1
    /\ call.out.lyrics[2].text = <<66>> /\ call.out.lyrics[2].timestamp = Stamp2

\* A Latin1 frame whose lyric is decoded with the encoding of the frame.
C24_WitnessLatin1 ==
    /\ SyltOk /\ call.out.encoding = "Latin1"
    /\ Len(call.out.lyrics) = 2 /\ call.out.lyrics[2].text = <<66>>

TocOk == Called("TableOfContentsFrame::parse") /\ call.out.result = "Ok"

\* The strings read from the offset pos on, at most count of them.
RECURSIVE StringsFrom(_, _, _)
StringsFrom(data, pos, count) ==
    IF count = 0 \/ pos >= Len(data) THEN <<>>
    ELSE <<ByteBefore(Drop(data, pos))>>
         \o StringsFrom(data, pos + Len(ByteBefore(Drop(data, pos))) + 1, count - 1)

\* The offset after the strings read from pos on.
RECURSIVE StringsEnd(_, _, _)
StringsEnd(data, pos, count) ==
    IF count = 0 \/ pos >= Len(data) THEN pos
    ELSE StringsEnd(data, Min(pos + Len(ByteBefore(Drop(data, pos))) + 1, Len(data)), count - 1)

\* The elements and embedded frames of a parsed CTOC frame are those read
\* from the offset start on.
TocReadFrom(start) ==
    /\ call.out.elements = StringsFrom(call.in.data, start, call.in.data[ElementEnd(call.in.data) + 2])
    /\ HoldsFrames(call.out.frames,
                   NestedFrames(call.in.header, call.in.data,
                                StringsEnd(call.in.data, start,
                                           call.in.data[ElementEnd(call.in.data) + 2])))

\* C26: TableOfContentsFrame::parse reads the child element ids from the
\* byte after the entry count on, min(entry count, strings in the body) of
\* them, so that neither the flags nor the entry count is part of an
\* element, and hands the bytes after the last element read to frame dispatch.
C26_TocElements ==
    TocOk => TocReadFrom(TocElementsStartAfterCount(ElementEnd(call.in.data)))

\* The elements are read from the entry count byte on.
TocAsRead ==
    TocOk => TocReadFrom(TocElementsStart(ElementEnd(call.in.data)))

\* A CTOC body "t", flags 3, 2 entries "c" and "d", a TIT2 frame: the first
\* element read starts with the entry count byte.
C26_Misread ==
    /\ TocOk
    /\ call.in.data = <<116, 0>> \o <<3, 2>> \o <<99, 0>> \o <<100, 0>> \o FrameRender("V24", SongFrame)
    /\ call.out.elements = <<<<2, 99>>, <<100>>>>
    /\ call.out.frames = <<SongFrame>>

\* A CTOC body with no entries and a TIT2 frame: dispatch starts at the
\* entry count byte and no frame is read.
C26_MisreadFrames ==
    /\ TocOk
    /\ call.in.data = <<116, 0>> \o <<3, 0>> \o FrameRender("V24", SongFrame)
    /\ call.out.elements = <<>>
    /\ call.out.frames = <<>>

\* The offset after the terminated price of an OWNE body, the terminator
\* included when there is one.
PriceEnd(data) ==
    IF Terminators("Utf8", Drop(data, 1)) = {} THEN Len(data)
    ELSE 1 + FirstOf(Terminators("Utf8", Drop(data, 1)))

\* The fields of a parsed OWNE frame, the date being the bytes from the
\* offset date_at on.
OwnerFields(date_at, date_len) ==
    /\ call.out.price_paid = ByteBefore(Drop(call.in.data, 1))
    /\ call.out.purchase_date = SubSeq(call.in.data, date_at + 1, date_at + date_len)
    /\ call.out.seller = StringGet(call.out.encoding, Drop(call.in.data, PriceEnd(call.in.data) + 8),
                                   call.in.native_le)

\* C25: OwnershipFrame::parse rejects a body shorter than nul_width + 9 and
\* reads from any longer one the price from byte 1 up to its terminator, the
\* 8 bytes after the terminator as the date, without the terminator, and the
\* bytes after those as the seller, with no read outside the body.
C25_Ownership ==
    (Called("OwnershipFrame::parse") /\ EncodingParse(call.in.data).ok) =>
        IF Len(call.in.data) < NulSize(EncodingParse(call.in.data).encoding) + 9
        THEN call.out.result = "NotEnoughData"
        ELSE /\ call.out.result = "Ok"
             /\ OwnerFields(PriceEnd(call.in.data), 8)

\* The date of a parsed OWNE frame is the terminator of the price and the 8
\* bytes after it.
OwnerAsRead ==
    (Called("OwnershipFrame::parse") /\ call.out.result = "Ok") =>
        OwnerFields(PriceEnd(call.in.data) - 1, 9)

\* The body 00 "1" 00 "20040506" "S" read with the date "\0" + "20040506".
C25_Misread ==
    /\ Called("OwnershipFrame::parse")
    /\ call.in.data = <<0>> \o <<49, 0>> \o Date8 \o <<83>>
    /\ call.out.result = "Ok"
    /\ call.out.price_paid = <<49>>
    /\ call.out.purchase_date = <<0>> \o Date8
    /\ call.out.seller = <<83>>

\* The accepted body 00 "1" 00 "2004050" of 10 bytes is sliced up to byte 11.
C25_Panic ==
    /\ Called("OwnershipFrame::parse")
    /\ call.in.data = <<0>> \o <<49, 0>> \o Take(Date8, 7)
    /\ call.out.result = "Panic"

\* C27: EventTimingCodesFrame::new gives no frame for an empty body and for
\* a body of n > 0 bytes a frame with the time format of byte 0 and
\* floor((n - 1) / 5) events, event i with the type of byte 1 + 5i and the
\* big-endian u32 of the bytes 2 + 5i .. 6 + 5i as timestamp; up to 4 bytes
\* at the end are ignored and nothing past the body is read.
C27_Events ==
    Called("EventTimingCodesFrame::new") =>
        IF Len(call.in) = 0 THEN ~call.out.some
        ELSE /\ call.out.some
             /\ call.out.time_format = call.in[1]
             /\ Len(call.out.events) = (Len(call.in) - 1) \div 5
             /\ Len(call.in) - (1 + 5 * Len(call.out.events)) \in 0..4
             /\ \A k \in 1..Len(call.out.events) :
                   /\ 1 + 5 * k <= Len(call.in)
                   /\ call.out.events[k].event_type = call.in[1 + 5 * (k - 1) + 1]
                   /\ call.out.events[k].timestamp =
                         ((call.in[5 * k - 2] * 256 + call.in[5 * k - 1]) * 256 + call.in[5 * k]) * 256
                         + call.in[5 * k + 1]

\* A body of 11 bytes has given two events, the second ending with the body.
C27_Witness ==
    /\ Called("EventTimingCodesFrame::new")
    /\ Len(call.in) = 11
    /\ Len(call.out.events) = 2
    /\ call.out.events[2].event_type = 127
    /\ call.out.events[2].timestamp = 16843135

\* A body of 10 bytes has given one event and left 4 bytes out.
C27_WitnessTrailing ==
    /\ Called("EventTimingCodesFrame::new")
    /\ Len(call.in) = 10
    /\ Len(call.out.events) = 1

\* C28: string decoding is total: get_string and get_terminated_string
\* return a string for every encoding and every buffer, the empty one, one of
\* 1 byte, one of odd length in UTF-16 and a terminated UTF-16 string with
\* BOM and no content (00 00) included; for UTF-16 with BOM FF FE selects
\* little-endian and FE FF big-endian and the BOM is no part of the result.
C28_StringTotal ==
    /\ (Called("get_string") \/ Called("get_terminated_string")) => ~call.out.panic
    /\ (Called("get_string") /\ call.in.encoding = "Utf16Bom" /\ BomOf(call.in.data) # "None") =>
          call.out.string = StrFromUtf16(Drop(call.in.data, 2), BomOf(call.in.data) = "Utf16Le")

\* get_string of the encoding UTF-16 with BOM on the empty buffer.
C28_PanicEmpty ==
    /\ Called("get_string") /\ call.in.encoding = "Utf16Bom" /\ call.in.data = <<>>
    /\ call.out.panic

\* get_terminated_string of the encoding UTF-16 with BOM on 00 00.
C28_PanicNoContent ==
    /\ Called("get_terminated_string") /\ call.in.encoding = "Utf16Bom" /\ call.in.data = <<0, 0>>
    /\ call.out.panic

\* get_terminated_string of a double-byte encoding on a buffer of 1 byte.
C28_PanicOdd ==
    /\ Called("get_terminated_string") /\ call.in.encoding = "Utf16Be" /\ call.in.data = <<65>>
    /\ call.out.panic

\* Where get_string returns, the BOM selects the byte order and is left out.
StringBom ==
    (Called("get_string") /\ call.in.encoding = "Utf16Bom" /\ ~call.out.panic) =>
        /\ BomOf(call.in.data) = "Utf16Le" => call.out.string = StrFromUtf16(Drop(call.in.data, 2), TRUE)
        /\ BomOf(call.in.data) = "Utf16Be" => call.out.string = StrFromUtf16(Drop(call.in.data, 2), FALSE)

Looping == call.phase = "loop"

\* The declared size of the frame whose header is at the offset pos.
DeclaredSize(header, data, pos) == FrameHeaderParse(header.version, Drop(data, pos)).size

\* The frames a loop has gathered are those of the parser as a whole.
LoopAsParsed ==
    call.phase = "done" =>
        /\ call.fn = "Tag::open" =>
              /\ call.out.frames = OpenRead(call.in.header, call.in.data).tag.frames
              /\ call.out.unknowns = OpenRead(call.in.header, call.in.data).tag.unknown_frames.frames
        /\ call.fn = "ChapterFrame::parse" =>
              call.out.frames = ChapterParse(call.in.header, call.in.data).frames
        /\ call.fn = "TableOfContentsFrame::parse" =>
              call.out.frames = TocParse(call.in.header, call.in.data).frames

\* C29: parsing terminates on every finite input: every turn of the frame
\* loop of Tag::open and of the loops of nested frames of ChapterFrame::parse
\* and TableOfContentsFrame::parse moves the read position on by the length
\* of the frame header + the declared size of the frame; a loop ends when the
\* buffer is exhausted or no frame can be taken at the position, keeps the
\* frames parsed so far and gives Ok, not an error; and every loop ends.
C29_Terminates ==
    /\ [][(Looping /\ call'.phase = "loop") =>
             /\ call'.out.pos > call.out.pos
             /\ call'.out.pos = call.out.pos + FrameHeaderLen(call.in.header.version)
                                + DeclaredSize(call.in.header, call.in.data, call.out.pos)
             /\ call'.out.pos <= Len(call.in.data)]_vars
    /\ [][(Looping /\ call'.phase = "done") =>
             /\ call'.out.result = "Ok"
             /\ call'.out.frames = call.out.frames
             /\ call'.out.unknowns = call.out.unknowns
             /\ \/ call.out.pos >= Len(call.in.data)
                \/ ~FramesParse(call.in.header, call.in.data, call.out.pos).ok
                \/ (call.fn # "Tag::open"
                    /\ FramesParse(call.in.header, call.in.data, call.out.pos).kind # "Frame")]_vars
    /\ <>(call.phase = "done")

\* A loop of nested frames has ended with Ok before the end of the buffer,
\* at a frame that cannot be taken, and keeps the frame it had parsed.
C29_Witness ==
    /\ call.phase = "done" /\ call.fn = "ChapterFrame::parse"
    /\ call.out.result = "Ok"
    /\ Len(call.out.frames) = 1
    /\ call.out.pos > ChapterStart(call.in.data)
    /\ call.out.pos < Len(call.in.data)

\* The loop of Tag::open has ended at the end of a buffer of three frames.
C29_WitnessOpen ==
    /\ call.phase = "done" /\ call.fn = "Tag::open"
    /\ call.out.result = "Ok"
    /\ Len(call.out.frames) + Len(call.out.unknowns) = 3
    /\ call.out.pos = Len(call.in.data)

SizeTooLarge == sz.phase = "saved" /\ sz.result = "TooLarge"

\* C30: when save returns TooLarge the tag is as it was before the call: its
\* version, header flags, header size, extended header, frame map and unknown
\* frames are unchanged.
C30_TooLargeKeepsTag == SizeTooLarge => tag = last.tag0

\* What a save that returns TooLarge leaves: the header size and the unknown
\* frames of the tag before, and the rest of the tag upgraded with the header
\* flags reset.
TooLargeAsSaved ==
    SizeTooLarge =>
        /\ tag.header.size = last.tag0.header.size
        /\ tag.unknown_frames = last.tag0.unknown_frames
        /\ tag = SaveReset(TagUpdate(last.tag0, SaveVersionFor(last.tag0.header.version)))

\* A v2.2 tag is a v2.3 tag after a save that returned TooLarge.
C30_Upgraded ==
    SizeTooLarge /\ last.tag0.header.version = "V22" /\ tag.header.version = "V23"

\* The header flags of a tag are reset after a save that returned TooLarge.
C30_FlagsReset ==
    SizeTooLarge /\ last.tag0.header.version = tag.header.version
    /\ last.tag0.header.flags.unsync /\ ~tag.header.flags.unsync

\* A tag of a version save writes, with no flag to reset, is unchanged by a
\* save that returned TooLarge.
C30_Unchanged == SizeTooLarge /\ tag = last.tag0

====
